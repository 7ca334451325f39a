----------------------------- MODULE HttpServer -----------------------------
(***************************************************************************)
(* One connection of HttpServer (src/http/http_server.cpp): the parser     *)
(* HttpContext (src/http/http_context.h) that is kept with the connection, *)
(* the request it fills, and the responses.                                *)
(*                                                                         *)
(* A byte is a token: CR, LF, or the whole text of a line, of which the    *)
(* parser sees nothing before the line's end.  Texts are records: a        *)
(* request line with its version, a header with what it says of the        *)
(* connection, or one that is refused in either state.  (A request line    *)
(* has no colon here: one that has would pass for a header.)  The client   *)
(* sends what it likes, one line after the other; the kernel hands it over *)
(* cut anywhere.  input_buffer_ is the sequence of its readable tokens     *)
(* (FrameReceiver has the indices).  http_cb_ answers every request, with  *)
(* code 200 whatever it says, and leaves the response's close flag alone.  *)
(***************************************************************************)
EXTENDS Integers, SequencesExt

CONSTANTS
    MaxLines        \* bound: lines the client sends

CR == [t |-> "cr"]
LF == [t |-> "lf"]
RequestLine(v) == [t |-> "request", version |-> v]
Header(c) == [t |-> "header", connection |-> c]
BadLine == [t |-> "bad"]
Texts == {RequestLine(v) : v \in {"kHttp10", "kHttp11"}}
            \cup {Header(c) : c \in {"close", "keep-alive"}} \cup {BadLine}

VARIABLES
    sent,           \* the lines the client sent; <<>> for an empty one
    stream,         \* its tokens that have not arrived
    input,          \* input_buffer_
    parse_state,    \* HttpContext::state_
    request,        \* HttpContext::request_
    state,          \* the connection's state_
    served,         \* history: requests handed to http_cb_
    responses,      \* history: responses the connection took
    pipelined       \* history: a line was sent before the last request was answered

vars == <<sent, stream, input, parse_state, request, state, served, responses, pipelined>>

NoRequest == [version |-> "kUnknown", connection |-> ""]

Init ==
    /\ sent = <<>> /\ stream = <<>> /\ input = <<>>
    /\ parse_state = "kExpectRequestLine" /\ request = NoRequest
    /\ state = "kConnected"
    /\ served = <<>> /\ responses = <<>> /\ pipelined = FALSE

-----------------------------------------------------------------------------
(* HttpRequest and HttpContext.                                            *)

keep_alive(req) ==
    IF req.version = "kHttp11" THEN req.connection # "close"
    ELSE req.connection = "keep-alive"

\* Buffer::find_crlf: how many tokens come before the first CR LF; -1 without one.
find_crlf(b) ==
    LET at == {i \in 1 .. Len(b) - 1 : b[i] = CR /\ b[i + 1] = LF}
    IN  IF at = {} THEN -1 ELSE Min(at) - 1

\* parse_request_line of a line (no token or one): the version, if it is accepted.
parse_request_line(p, line) ==
    IF line # <<>> /\ line[1].t = "request"
    THEN [p EXCEPT !.req.version = line[1].version, !.st = "kExpectHeaders"]
    ELSE [p EXCEPT !.ok = FALSE]

\* parse_header and add_header: a later header replaces an earlier one.
parse_header(p, line) ==
    IF line[1].t = "header"
    THEN [p EXCEPT !.req.connection = line[1].connection]
    ELSE [p EXCEPT !.ok = FALSE]

\* Mutant: one line is taken in each call.
parse_OneLine(p) ==
    LET n == find_crlf(p.buf)
        line == SubSeq(p.buf, 1, n)
        q == CASE p.st = "kExpectRequestLine" -> parse_request_line(p, line)
               [] p.st = "kExpectHeaders" /\ line = <<>> -> [p EXCEPT !.st = "kGotAll"]
               [] OTHER -> parse_header(p, line)
    IN  IF n = -1 \/ ~q.ok THEN [q EXCEPT !.st = p.st]
        ELSE [q EXCEPT !.buf = SubSeq(@, n + 3, Len(@))]

\* HttpContext::parse: lines are taken until a request is complete, a line is
\* refused (it stays in the buffer), or there is no whole line.
RECURSIVE parse(_)
parse(p) ==
    LET n == find_crlf(p.buf)
        line == SubSeq(p.buf, 1, n)
        q == CASE p.st = "kExpectRequestLine" -> parse_request_line(p, line)
               [] p.st = "kExpectHeaders" /\ line = <<>> -> [p EXCEPT !.st = "kGotAll"]
               [] OTHER -> parse_header(p, line)
    IN  IF p.st = "kGotAll" \/ n = -1 THEN p
        ELSE IF ~q.ok THEN q
        ELSE parse([q EXCEPT !.buf = SubSeq(@, n + 3, Len(@))])

-----------------------------------------------------------------------------
(* HttpServer and its connection.                                          *)

\* What a response says that matters: its code and its Connection header.
Response(code, close) == [code |-> code, close |-> close]

Context == [st |-> parse_state, req |-> request, buf |-> input, ok |-> TRUE]

\* Mutant: the parser goes on with the headers of the request before.
on_message_NoReset(b) ==
    LET p == parse([Context EXCEPT !.buf = b])
        done == p.ok /\ p.st = "kGotAll"
    IN  [buf |-> p.buf, req |-> p.req,
         st |-> IF done THEN "kExpectRequestLine" ELSE p.st,
         served |-> IF done THEN <<p.req>> ELSE <<>>,
         resp |-> IF ~p.ok THEN <<Response(400, TRUE)>>
                  ELSE IF done THEN <<Response(200, ~keep_alive(p.req))>>
                  ELSE <<>>]

\* on_message with the buffer b: what it leaves, the request it serves and the
\* response it sends.  At most one request, and then the parser is reset.
on_message(b) ==
    LET p == parse([Context EXCEPT !.buf = b])
        done == p.ok /\ p.st = "kGotAll"
    IN  [buf |-> p.buf,
         st |-> IF done THEN "kExpectRequestLine" ELSE p.st,
         req |-> IF done THEN NoRequest ELSE p.req,
         served |-> IF done THEN <<p.req>> ELSE <<>>,
         resp |-> IF ~p.ok THEN <<Response(400, TRUE)>>
                  ELSE IF done THEN <<Response(200, ~keep_alive(p.req))>>
                  ELSE <<>>]

\* No callback, for there is nothing to read.
Untouched ==
    [buf |-> input, st |-> parse_state, req |-> request, served |-> <<>>, resp |-> <<>>]

\* Mutant: a response is taken after shutdown().
Respond_AfterShutdown(resp, fin) ==
    /\ responses' = responses \o resp
    /\ state' = IF fin THEN "kDisconnected"
                ELSE IF resp # <<>> /\ resp[1].close THEN "kDisconnecting" ELSE state

\* Connection::send, dropped unless kConnected; shutdown() after a response that
\* closes; close() if the peer has ended.
Respond(resp, fin) ==
    /\ responses' = IF state = "kConnected" THEN responses \o resp ELSE responses
    /\ state' = IF fin THEN "kDisconnected"
                ELSE IF resp # <<>> /\ resp[1].close THEN "kDisconnecting" ELSE state

\* Connection::handle_read: n tokens are there, and with fin the client's EOF.
handle_read(n, fin) ==
    /\ state # "kDisconnected"
    /\ n > 0 \/ fin
    /\ fin => n = Len(stream)
    /\ stream' = SubSeq(stream, n + 1, Len(stream))
    /\ \E r \in {IF input = <<>> /\ n = 0 THEN Untouched
                ELSE on_message(input \o SubSeq(stream, 1, n))} :
          /\ input' = r.buf /\ parse_state' = r.st /\ request' = r.req
          /\ served' = served \o r.served
          /\ Respond(r.resp, fin)
    /\ UNCHANGED <<sent, pipelined>>

Ends == {i \in DOMAIN sent : sent[i] = <<>>}

\* The client sends a line, in one piece; whether it waits for answers is its own
\* affair.
SendLine(line) ==
    /\ state # "kDisconnected"
    /\ Len(sent) < MaxLines
    /\ sent' = Append(sent, line)
    /\ stream' = stream \o line \o <<CR, LF>>
    /\ pipelined' = (pipelined \/ Cardinality(Ends) > Len(responses))
    /\ UNCHANGED <<input, parse_state, request, state, served, responses>>

Next ==
    \/ \E n \in 0 .. Len(stream), fin \in BOOLEAN : handle_read(n, fin)
    \/ \E line \in {<<>>} \cup {<<x>> : x \in Texts} : SendLine(line)

\* A handle_read that leaves nothing unread: enabled while there is something.
ReadsAll == state # "kDisconnected" /\ stream # <<>> /\ stream' = <<>>

\* What was sent arrives and is read in the end: the descriptor is registered with
\* epoll until the connection closes.
Spec == Init /\ [][Next]_vars /\ WF_stream(ReadsAll)

-----------------------------------------------------------------------------
(* Properties.                                                             *)

\* The reference: a request is what stands between two empty lines.
Block(lines, k) ==
    LET ends == SetToSortSeq({i \in DOMAIN lines : lines[i] = <<>>}, <)
    IN  SubSeq(lines, IF k = 1 THEN 1 ELSE ends[k - 1] + 1, ends[k] - 1)

IsRequest(b) ==
    /\ b # <<>>
    /\ \A i \in DOMAIN b : b[i][1].t = IF i = 1 THEN "request" ELSE "header"

RequestOf(b) ==
    [version |-> b[1][1].version,
     connection |-> IF Len(b) = 1 THEN "" ELSE b[Len(b)][1].connection]

\* However its lines are cut, the k-th request served is the k-th that was sent,
\* with its own version and headers and no other's, and every block before it was
\* a request.
ServedInOrder ==
    /\ Len(served) <= Cardinality(Ends)
    /\ \A k \in DOMAIN served :
          IsRequest(Block(sent, k)) /\ served[k] = RequestOf(Block(sent, k))

\* A response that says close is the last one the client gets, and every other one
\* answers the request in its place.
CloseIsLast ==
    \A k \in DOMAIN responses :
        /\ responses[k].close => k = Len(responses) /\ state # "kConnected"
        /\ responses[k].code = 200 => responses[k].close = ~keep_alive(served[k])

\* A client that waits for each answer before it goes on gets one to every request:
\* serving one request in a callback strands only what was pipelined behind it.
WaitingClientIsAnswered ==
    \A k \in 1 .. MaxLines :
        Cardinality(Ends) = k
            ~> (Len(responses) >= k \/ pipelined \/ state # "kConnected")

=============================================================================
