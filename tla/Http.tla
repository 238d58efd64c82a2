-------------------------------- MODULE Http --------------------------------
(***************************************************************************)
(* The client's reading of HTTP responses (http_parse.c) as the segments   *)
(* of a connection arrive, and the delayed acknowledgement of those        *)
(* segments (http_client_process_data, tcp_ack_delay_add and               *)
(* tcp_ack_delay_flush in tcp.c).                                          *)
(*                                                                         *)
(* A response is a sequence of symbols: a header line is one symbol, a     *)
(* byte of the body is one.  Segments may be cut anywhere between two      *)
(* symbols; the parser sees one segment at a time and keeps its place in   *)
(* the socket.  The length of a chunk stays far below 2^63 here.           *)
(***************************************************************************)
EXTENDS Integers, Sequences, SequencesExt

CONSTANTS
    Socks,              \* the sockets of a worker
    Scenarios,
    Responses,          \* the responses a socket may get in a scenario
    MaxResponses,       \* how many responses are read in all in a scenario
    TCP_ACK_DELAY_MAX   \* room in ws->ack_delay

ASSUME HttpAssumption == TCP_ACK_DELAY_MAX \in Nat \ {0} /\ MaxResponses \in [Scenarios -> Nat]

VARIABLES
    scenario,
    at_once,    \* keepalive interval >= retransmit_timeout and no disable_ack
    sk,         \* http_* fields and keepalive of every socket
    conn,       \* "closed", "wait" for the rest of a response, "idle" until the next request
    rsp,        \* the response that is being received
    got,        \* how much of it was
    cut,        \* the headers of it came in more than one segment
    ret,        \* what http_parse_run returned last
    delay,      \* ws->ack_delay
    unacked,    \* segments received since the last ACK was sent
    responses

vars == <<scenario, at_once, sk, conn, rsp, got, cut, ret, delay, unacked, responses>>

Parsed(s, r) == [s |-> s, ret |-> r]
To(s, state) == [s EXCEPT !.state = state]
Rest(data, i) == SubSeq(data, i + 1, Len(data))

\* The index of the first symbol in C, 0 without one
FirstIn(data, C) == SelectInSeq(data, LAMBDA c : c \in C)
FirstNotIn(data, C) == SelectInSeq(data, LAMBDA c : c \notin C)
-----------------------------------------------------------------------------
(* Headers                                                                 *)

\* atol of the value of a Content-Length line
ContentLength == [h \in {"cl-1", "cl0", "cl2"} |-> IF h = "cl-1" THEN -1 ELSE IF h = "cl0" THEN 0 ELSE 2]

\* http_parse_header_line, with http_header_match: "chunked" is a
\* Transfer-Encoding with a k in it, "close" a Connection line too short for
\* keep-alive, "line" any other line
ParseHeaderLine(s, h) ==
    CASE h \in DOMAIN ContentLength ->
             IF ContentLength[h] < 0 \/ "TE" \in s.flags THEN Parsed(s, "ERR")
             ELSE Parsed([s EXCEPT !.length = ContentLength[h], !.flags = @ \cup {"CL"}], "OK")
      [] h = "chunked" ->
             IF "CL" \in s.flags THEN Parsed(s, "ERR")
             ELSE Parsed([s EXCEPT !.flags = @ \cup {"TE"}], "OK")
      [] h = "close" -> Parsed([s EXCEPT !.flags = @ \cup {"CLOSE"}, !.keepalive = FALSE], "OK")
      [] OTHER -> Parsed(s, "OK")

\* The empty line.  Without a header that says how long the body is, it lasts
\* until the connection is closed
HeaderDone(s) ==
    IF s.flags # {} THEN To(s, "HTTP_HEADER_DONE")
    ELSE [To(s, "HTTP_HEADER_DONE") EXCEPT !.flags = {"AUTO", "CLOSE"}, !.length = -1, !.keepalive = FALSE]

\* http_parse_headers: the socket, whether it is an error, and the data left
RECURSIVE ParseHeaders(_, _)
ParseHeaders(s, data) ==
    CASE data = <<>> -> [s |-> s, ret |-> "OK", data |-> data]
      [] data # <<>> /\ Head(data) = "empty" /\ s.state # "HTTP_HEADER_BEGIN" ->
             [s |-> HeaderDone(s), ret |-> "OK", data |-> Tail(data)]
      [] data # <<>> /\ ~(Head(data) = "empty" /\ s.state # "HTTP_HEADER_BEGIN") ->
             LET h == ParseHeaderLine(s, Head(data))
             IN  IF h.ret = "ERR" THEN [s |-> h.s, ret |-> "ERR", data |-> data]
                 ELSE ParseHeaders(To(h.s, "HTTP_HEADER_LINE_END"), Tail(data))
-----------------------------------------------------------------------------
(* http_parse_chunk: one operator per case of its switch; where a case     *)
(* falls through, the operator goes on with the next one                   *)
Hex == [c \in {"0", "1", "2", "a"} |-> CASE c = "0" -> 0 [] c = "1" -> 1 [] c = "2" -> 2 [] c = "a" -> 10]

RECURSIVE ChunkSize(_, _)
RECURSIVE TrailerBegin(_, _)

ChunkEnd(s, data) ==
    IF data = <<>> THEN Parsed(s, "OK")
    ELSE IF Head(data) = "LF" THEN Parsed(To(s, "HTTP_BODY_DONE"), "END") ELSE Parsed(s, "ERR")

Trailer(s, data) ==
    LET i == FirstIn(data, {"LF"})
    IN  IF i = 0 THEN Parsed(s, "OK")
        ELSE TrailerBegin(To(s, "HTTP_CHUNK_TRAILER_BEGIN"), Rest(data, i))

TrailerBegin(s, data) ==
    IF data = <<>> THEN Parsed(s, "OK")
    ELSE IF Head(data) = "CR" THEN ChunkEnd(To(s, "HTTP_CHUNK_END"), Tail(data))
    ELSE Trailer(To(s, "HTTP_CHUNK_TRAILER"), Tail(data))

DataEnd(s, data) ==
    IF data = <<>> THEN Parsed(s, "OK")
    ELSE IF Head(data) = "LF" THEN ChunkSize(To(s, "HTTP_CHUNK_SIZE"), Tail(data)) ELSE Parsed(s, "ERR")

\* As if the CR after a chunk came with its last byte
ChunkDataStrict(s, data) ==
    IF data = <<>> THEN Parsed(s, "OK")
    ELSE IF s.length > Len(data) THEN Parsed([s EXCEPT !.length = @ - Len(data)], "OK")
    ELSE IF s.length = Len(data) THEN Parsed([To(s, "HTTP_CHUNK_DATA_END") EXCEPT !.length = 0], "OK")
    ELSE IF data[s.length + 1] # "CR" THEN Parsed([s EXCEPT !.length = 0], "ERR")
    ELSE DataEnd([To(s, "HTTP_CHUNK_DATA_END") EXCEPT !.length = 0], Rest(data, s.length + 1))

ChunkData(s, data) ==
    IF data = <<>> THEN Parsed(s, "OK")
    ELSE IF s.length >= Len(data) THEN Parsed([s EXCEPT !.length = @ - Len(data)], "OK")
    ELSE IF data[s.length + 1] # "CR" THEN Parsed([s EXCEPT !.length = 0], "ERR")
    ELSE DataEnd([To(s, "HTTP_CHUNK_DATA_END") EXCEPT !.length = 0], Rest(data, s.length + 1))

\* Skips what follows the size, up to the end of the line
ChunkSizeEnd(s, data) ==
    LET i == FirstIn(data, {"LF"})
    IN  IF i = 0 THEN Parsed(s, "OK")
        ELSE IF s.length > 0 THEN ChunkData(To(s, "HTTP_CHUNK_DATA"), Rest(data, i))
        ELSE TrailerBegin(To(s, "HTTP_CHUNK_TRAILER_BEGIN"), Rest(data, i))

\* Digits and the letters a to f; any other byte, also an A to F, ends the size
ChunkSize(s, data) ==
    LET i      == FirstNotIn(data, DOMAIN Hex)
        digits == IF i = 0 THEN data ELSE SubSeq(data, 1, i - 1)
        sized  == [s EXCEPT !.length = FoldLeft(LAMBDA n, c : 16 * n + Hex[c], @, digits)]
    IN  IF i = 0 THEN Parsed(sized, "OK")
        ELSE ChunkSizeEnd(To(sized, "HTTP_CHUNK_SIZE_END"), Rest(data, i))

ParseChunk(s, data) ==
    CASE s.state \in {"HTTP_HEADER_DONE", "HTTP_CHUNK_SIZE"} -> ChunkSize(To(s, "HTTP_CHUNK_SIZE"), data)
      [] s.state = "HTTP_CHUNK_SIZE_END" -> ChunkSizeEnd(s, data)
      [] s.state = "HTTP_CHUNK_DATA" -> ChunkData(s, data)
      [] s.state = "HTTP_CHUNK_DATA_END" -> DataEnd(s, data)
      [] s.state = "HTTP_CHUNK_TRAILER_BEGIN" -> TrailerBegin(s, data)
      [] s.state = "HTTP_CHUNK_TRAILER" -> Trailer(s, data)
      [] s.state = "HTTP_CHUNK_END" -> ChunkEnd(s, data)
      [] OTHER -> Parsed(s, "ERR")
-----------------------------------------------------------------------------
ParseBody(s, data) ==
    CASE "CL" \in s.flags ->
             IF Len(data) < s.length THEN Parsed([s EXCEPT !.length = @ - Len(data)], "OK")
             ELSE IF Len(data) = s.length THEN Parsed([To(s, "HTTP_BODY_DONE") EXCEPT !.length = 0], "END")
             ELSE Parsed(s, "ERR")
      [] "CL" \notin s.flags /\ "TE" \in s.flags -> ParseChunk(s, data)
      [] s.flags \cap {"CL", "TE"} = {} -> Parsed(s, "OK")

\* http_parse_run.  The body is parsed even if the headers did not end and
\* no data is left
ParseRun(s, data) ==
    LET s1 == IF s.state = "HTTP_INIT" THEN To(s, "HTTP_HEADER_BEGIN") ELSE s
        h  == IF s1.state \in {"HTTP_HEADER_BEGIN", "HTTP_HEADER_LINE_END"} THEN ParseHeaders(s1, data)
              ELSE [s |-> s1, ret |-> "OK", data |-> data]
    IN  IF h.ret = "ERR" THEN Parsed(h.s, "ERR") ELSE ParseBody(h.s, h.data)
-----------------------------------------------------------------------------
(* socket_init_http, and socket_client_open for a new connection           *)
InitHttp(s) == [s EXCEPT !.length = 0, !.state = "HTTP_INIT", !.flags = {}, !.http_ack = FALSE, !.frags = 0]

Fresh == [length |-> 0, state |-> "HTTP_INIT", flags |-> {}, http_ack |-> FALSE, frags |-> 0, keepalive |-> TRUE]

Init ==
    /\ scenario \in Scenarios /\ at_once \in BOOLEAN
    /\ sk = [i \in Socks |-> Fresh] /\ conn = [i \in Socks |-> "closed"]
    /\ rsp = [i \in Socks |-> [hdr |-> <<>>, body |-> <<>>, good |-> FALSE]]
    /\ got = [i \in Socks |-> 0] /\ cut = [i \in Socks |-> FALSE] /\ ret = [i \in Socks |-> "OK"]
    /\ delay = <<>> /\ unacked = [i \in Socks |-> 0] /\ responses = 0

\* A request goes out, and acknowledges all that was received
Request(i, s) ==
    /\ responses < MaxResponses[scenario]
    /\ responses' = responses + 1
    /\ \E r \in Responses[scenario][i] : rsp' = [rsp EXCEPT ![i] = r]
    /\ sk' = [sk EXCEPT ![i] = s]
    /\ conn' = [conn EXCEPT ![i] = "wait"] /\ unacked' = [unacked EXCEPT ![i] = 0]
    /\ got' = [got EXCEPT ![i] = 0] /\ cut' = [cut EXCEPT ![i] = FALSE] /\ ret' = [ret EXCEPT ![i] = "OK"]
    /\ UNCHANGED <<scenario, at_once, delay>>

Open(i) == conn[i] = "closed" /\ Request(i, Fresh)

\* tcp_send_keepalive_request: the timers run in a tick after the flush.  The
\* request may be the last one keepalive_request_num allows; after the test a
\* FIN goes out instead
KeepaliveRequest(i) ==
    /\ conn[i] = "idle" /\ delay = <<>>
    /\ \/ \E last \in BOOLEAN : Request(i, [sk[i] EXCEPT !.keepalive = @ /\ ~last])
       \/ /\ conn' = [conn EXCEPT ![i] = "closed"] /\ unacked' = [unacked EXCEPT ![i] = 0]
          /\ sk' = [sk EXCEPT ![i].keepalive = FALSE]
          /\ UNCHANGED <<scenario, at_once, rsp, got, cut, ret, delay, responses>>
-----------------------------------------------------------------------------
(* A worker w is the sockets, ws->ack_delay and the counts of unacked      *)

\* tcp_ack_delay_flush: one ACK for each socket that still waits for it
AckDelayFlush(w) ==
    LET due == {i \in Socks : (\E k \in 1 .. Len(w.delay) : w.delay[k] = i) /\ w.sk[i].http_ack}
    IN  [sk      |-> [i \in Socks |-> IF i \in due THEN [w.sk[i] EXCEPT !.http_ack = FALSE] ELSE w.sk[i]],
         unacked |-> [i \in Socks |-> IF i \in due /\ conn[i] # "closed" THEN 0 ELSE w.unacked[i]],
         delay   |-> <<>>]

AckDelayAddFull(w, i) ==
    IF w.sk[i].http_ack \/ Len(w.delay) >= TCP_ACK_DELAY_MAX THEN w
    ELSE [w EXCEPT !.delay = Append(@, i), !.sk[i].http_ack = TRUE]

AckDelayAdd(w, i) ==
    IF w.sk[i].http_ack THEN w
    ELSE LET v == IF Len(w.delay) >= TCP_ACK_DELAY_MAX THEN AckDelayFlush(w) ELSE w
         IN  [v EXCEPT !.delay = Append(@, i), !.sk[i].http_ack = TRUE]

\* tcp_reply acknowledges; with FIN, or RST under fast_close, the data of the
\* connection is not read any more
Reply(w, i) == [w EXCEPT !.unacked[i] = 0]

Update(w) == sk' = w.sk /\ delay' = w.delay /\ unacked' = w.unacked

\* http_client_process_data, called by tcp_client_process_data for the next n
\* symbols of the response, with or without FIN
ClientProcessData(i, n, fin) ==
    LET whole == rsp[i].hdr \o rsp[i].body
        p     == ParseRun(sk[i], SubSeq(whole, got[i] + 1, got[i] + n))
        frags == p.s.frags
        With(s) == [sk |-> [sk EXCEPT ![i] = s], delay |-> delay, unacked |-> [unacked EXCEPT ![i] = @ + 1]]
        more  == [p.s EXCEPT !.frags = IF @ < 4 THEN @ + 1 ELSE @]
        done  == InitHttp(p.s)
    IN  /\ conn[i] = "wait" /\ got[i] + n <= Len(whole)
        /\ fin => got[i] + n = Len(whole)
        /\ got' = [got EXCEPT ![i] = @ + n]
        /\ cut' = [cut EXCEPT ![i] = @ \/ (got[i] = 0 /\ n < Len(rsp[i].hdr))]
        /\ ret' = [ret EXCEPT ![i] = p.ret]
        /\ CASE p.ret = "OK" /\ ~fin -> Update(AckDelayAdd(With(more), i)) /\ UNCHANGED conn
             [] p.ret = "OK" /\ fin -> Update(Reply(With(more), i)) /\ conn' = [conn EXCEPT ![i] = "closed"]
             [] p.ret = "END" /\ done.keepalive /\ ~fin ->
                    /\ Update(IF frags >= 2 \/ at_once THEN AckDelayAdd(With(done), i) ELSE With(done))
                    /\ conn' = [conn EXCEPT ![i] = "idle"]
             [] p.ret = "END" /\ ~(done.keepalive /\ ~fin) ->
                    Update(Reply(With(done), i)) /\ conn' = [conn EXCEPT ![i] = "closed"]
             [] p.ret = "ERR" ->
                    /\ Update(Reply(With([done EXCEPT !.keepalive = FALSE]), i))
                    /\ conn' = [conn EXCEPT ![i] = "closed"]
        /\ UNCHANGED <<scenario, at_once, rsp, responses>>

\* A tick of client_loop
Tick ==
    /\ delay # <<>>
    /\ Update(AckDelayFlush([sk |-> sk, delay |-> delay, unacked |-> unacked]))
    /\ UNCHANGED <<scenario, at_once, conn, rsp, got, cut, ret, responses>>

Next ==
    \/ \E i \in Socks :
         \/ Open(i) \/ KeepaliveRequest(i)
         \/ \E n \in 1 .. Len(rsp[i].hdr) + Len(rsp[i].body), fin \in BOOLEAN : ClientProcessData(i, n, fin)
    \/ Tick

Spec == Init /\ [][Next]_vars
-----------------------------------------------------------------------------
(* However a response is cut into segments, as long as its headers come in *)
(* one ("headers must be in an mbuf"), http_parse_run is where it would be *)
(* had all of it come at once; and a response that is encoded as it should *)
(* be is found to end exactly at its last byte, and is never an error.     *)
Framing ==
    \A i \in Socks :
        LET read == SubSeq(rsp[i].hdr \o rsp[i].body, 1, got[i])
            once == ParseRun(Fresh, read)
        IN  got[i] > 0 /\ ~cut[i] =>
                /\ ret[i] = once.ret
                /\ ret[i] = "OK" => /\ sk[i].state = once.s.state /\ sk[i].length = once.s.length
                                    /\ sk[i].flags = once.s.flags
                /\ rsp[i].good => ret[i] = IF Len(read) = Len(rsp[i].hdr) + Len(rsp[i].body) THEN "END" ELSE "OK"

(* Whenever no acknowledgement is put off, every segment received has been *)
(* acknowledged, but for at most two of a response that is complete: those *)
(* the next request acknowledges.  So the server never waits for an ACK in *)
(* the middle of a response.                                               *)
AckBounded ==
    /\ Len(delay) <= TCP_ACK_DELAY_MAX
    /\ delay = <<>> => \A i \in Socks : unacked[i] > 0 => conn[i] = "idle" /\ unacked[i] <= 2
=============================================================================
