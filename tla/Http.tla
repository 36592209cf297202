-------------------------------- MODULE Http --------------------------------
(***************************************************************************)
(* http/server.lua and http/client.lua: a query of the client and its      *)
(* handling by the server, over a connection that cuts both into segments  *)
(* and may end anywhere.                                                   *)
(*                                                                         *)
(* A string is a sequence of characters; a command, a URI, a version with  *)
(* its keyword, a status and a header are one character each.              *)
(***************************************************************************)
EXTENDS Integers, Sequences

CONSTANTS
    Queries,       \* [headers, data] of a query
    HttpResponses, \* [headers, data] of a handler's response
    ContentLen     \* header -> the number it gives as Content-Length

VARIABLES
    query, reply,  \* what the client asks, what the handler answers
    http,          \* "request", "response", "done" or "error" (Malformed)
    inflight,      \* what has still to arrive at the side that reads
    cutoff,        \* the connection ended early
    so_far,        \* what was read
    unparsed_i,
    request,       \* what parse_request_so_far() found: command, headers, data
    handled,       \* the request as the handler got it
    answer         \* what query() returned

httpVars == <<query, reply, http, inflight, cutoff, so_far, unparsed_i, request, handled, answer>>

NewLine == <<"\r", "\n">>
Nothing == [some |-> FALSE, value |-> <<>>]
Some(v) == [some |-> TRUE, value |-> v]
Headers == DOMAIN ContentLen

\* build_header_string().
HeaderString(headers) ==
    LET text[i \in 0 .. Len(headers)] == IF i = 0 THEN <<>> ELSE text[i - 1] \o <<headers[i]>> \o NewLine
    IN text[Len(headers)]
\* send_request(): build_request_and_headers(), then the data.
RequestText(q) == <<"GET", " ", "/uri", " ", "HTTP/1.0">> \o NewLine \o HeaderString(q.headers) \o NewLine \o q.data
\* send_response().
ResponseText(r) == <<"HTTP/1.0 250 Ok">> \o NewLine \o HeaderString(r.headers) \o NewLine \o r.data

\* The position after the first occurrence of str in text that starts at or
\* after i; 0 if there is none.
After(text, str, i) ==
    LET starts == {j \in i .. Len(text) - Len(str) + 1 : SubSeq(text, j, j + Len(str) - 1) = str}
    IN IF starts = {} THEN 0 ELSE (CHOOSE j \in starts : \A k \in starts : j <= k) + Len(str)

\* parse_header_string(): from start on, "(.-):%s+(.-)\r\n" again and again. The
\* name is all that comes before the colon, line ends too, and nothing stops at
\* an empty line; a header is the text it was made of, <<h>> for a line of its own.
ParseHeaderString(text, start) ==
    LET colon(i) == CHOOSE j \in i .. Len(text) : text[j] \in Headers /\ \A k \in i .. j - 1 : text[k] \notin Headers
        from[i \in 1 .. Len(text) + 1] ==
            IF \A j \in i .. Len(text) : text[j] \notin Headers THEN <<>>
            ELSE LET end == After(text, NewLine, colon(i) + 1)
                 IN IF end = 0 THEN <<>> ELSE <<SubSeq(text, i, end - 3)>> \o from[end]
    IN from[start]
\* tonumber(headers['content-length'][1]).
HasLength(headers) ==
    LET lens == SelectSeq(headers, LAMBDA h : h[1] \in Headers /\ ContentLen[h[1]] >= 0)
    IN IF lens # <<>> /\ Len(lens[1]) = 1 THEN Some(ContentLen[lens[1][1]]) ELSE Nothing

------------------------------------------------------------------------------
NewRequest == [command |-> FALSE, headers |-> Nothing, data |-> Nothing]
Parsed(done, i, r, bad) == [done |-> done, i |-> i, r |-> r, bad |-> bad]

\* The last part of parse_request_so_far(): the data, once all of it is there.
ParseData(text, i, r) ==
    LET len == HasLength(r.headers.value)
    IN CASE ~len.some -> Parsed(TRUE, i, r, FALSE)
         [] len.some /\ Len(text) - i + 1 >= len.value ->
              Parsed(TRUE, i, [r EXCEPT !.data = Some(SubSeq(text, i, i + len.value - 1))], FALSE)
         [] OTHER -> Parsed(FALSE, i, r, FALSE)

\* Its middle: the headers end at an empty line, which is looked for in all that
\* has arrived; only where there is none yet, "^\r\n()": there are no headers.
\* Mutant: a line's end is taken for the end of the headers.
ParseHeadersShort(text, i, r) ==
    LET end == After(text, NewLine, i)
        found == [r EXCEPT !.headers = Some(ParseHeaderString(SubSeq(text, i, end - 1), 1))]
    IN IF r.headers.some THEN ParseData(text, i, r)
       ELSE IF end # 0 THEN ParseData(text, end, found) ELSE Parsed(FALSE, i, r, FALSE)
ParseHeaders(text, i, r) ==
    LET end == After(text, NewLine \o NewLine, i)
        found(headers) == [r EXCEPT !.headers = Some(headers)]
    IN CASE r.headers.some -> ParseData(text, i, r)
         [] ~r.headers.some /\ end # 0 -> ParseData(text, end, found(ParseHeaderString(SubSeq(text, i, end - 3), 1)))
         [] ~r.headers.some /\ end = 0 /\ After(text, NewLine, i) = i + 2 -> ParseData(text, i + 2, found(<<>>))
         [] OTHER -> Parsed(FALSE, i, r, FALSE)

\* parse_request_so_far(): the command line first; a line that is none is an error.
ParseRequestSoFar(text, i, r) ==
    LET end == After(text, <<" ", "HTTP/1.0">> \o NewLine, i)
    IN CASE r.command -> ParseHeaders(text, i, r)
         [] ~r.command /\ end # 0 -> ParseHeaders(text, end, [r EXCEPT !.command = TRUE])
         [] ~r.command /\ end = 0 /\ After(text, NewLine, i) # 0 -> Parsed(FALSE, i, r, TRUE)
         [] OTHER -> Parsed(FALSE, i, r, FALSE)

\* handle() once get_request() is over: the handler, if there is a command, and
\* send_response(); the client waits for it in parse_response().
Handle(r) ==
    /\ http' = "response"
    /\ handled' = Some(<<r>>)
    /\ inflight' = IF r.command THEN ResponseText(reply) ELSE ResponseText([headers |-> <<>>, data |-> <<>>])
    /\ so_far' = <<>>

\* get_request(): a segment, or the end of the stream, and what was read is parsed.
GetRequest(n) ==
    LET text == so_far \o SubSeq(inflight, 1, n)
        p == ParseRequestSoFar(text, unparsed_i, request)
    IN /\ http = "request"
       /\ n \in 1 .. Len(inflight) \/ (n = 0 /\ inflight = <<>>)
       /\ request' = p.r /\ unparsed_i' = p.i
       /\ CASE p.bad -> http' = "error" /\ UNCHANGED <<handled, inflight, so_far>>
            [] ~p.bad /\ (p.done \/ n = 0) -> Handle(p.r)
            [] OTHER -> /\ so_far' = text /\ inflight' = SubSeq(inflight, n + 1, Len(inflight))
                        /\ UNCHANGED <<http, handled>>
       /\ UNCHANGED <<query, reply, cutoff, answer>>

\* parse_response(): everything up to the end of the stream, then the status, the
\* headers (the data is searched for them too), and what follows the first empty
\* line: parse_header_string() returns no position, so match() starts at 1.
ParseResponse(n) ==
    LET end == After(so_far, NewLine, 1)
        body == After(so_far, NewLine \o NewLine, 1)
    IN /\ http = "response"
       /\ \/ /\ n \in 1 .. Len(inflight)
             /\ so_far' = so_far \o SubSeq(inflight, 1, n)
             /\ inflight' = SubSeq(inflight, n + 1, Len(inflight))
             /\ UNCHANGED <<http, answer>>
          \/ /\ n = 0 /\ inflight = <<>>
             /\ http' = "done"
             /\ answer' = IF end = 0 THEN Nothing
                          ELSE Some([headers |-> ParseHeaderString(so_far, end),
                                     data |-> IF body = 0 THEN Nothing
                                              ELSE Some(SubSeq(so_far, body, Len(so_far)))])
             /\ UNCHANGED <<so_far, inflight>>
       /\ UNCHANGED <<query, reply, cutoff, unparsed_i, request, handled>>

\* The side that sends ends early: the rest does not arrive.
CutOff(n) ==
    /\ http \in {"request", "response"} /\ ~cutoff /\ n \in 0 .. Len(inflight) - 1
    /\ inflight' = SubSeq(inflight, 1, n)
    /\ cutoff' = TRUE
    /\ UNCHANGED <<query, reply, http, so_far, unparsed_i, request, handled, answer>>

HttpInit ==
    /\ query \in Queries /\ reply \in HttpResponses
    /\ http = "request" /\ inflight = RequestText(query) /\ cutoff = FALSE
    /\ so_far = <<>> /\ unparsed_i = 1 /\ request = NewRequest /\ handled = Nothing /\ answer = Nothing
HttpNext == \E n \in 0 .. Len(inflight) : GetRequest(n) \/ ParseResponse(n) \/ CutOff(n)

------------------------------------------------------------------------------
HttpTypeOK ==
    /\ http \in {"request", "response", "done", "error"}
    /\ unparsed_i \in 1 .. Len(RequestText(query)) + 1
    /\ request.command \in BOOLEAN

HeaderLines(headers) == [i \in 1 .. Len(headers) |-> <<headers[i]>>]

\* The request that headers and the text after them make.
Reading(headers, text) ==
    LET len == HasLength(headers)
    IN [command |-> TRUE, headers |-> Some(headers),
        data |-> IF len.some /\ Len(text) >= len.value THEN Some(SubSeq(text, 1, len.value)) ELSE Nothing]

\* What the server may make of a query that arrives whole: what was meant, and, of
\* a query without headers whose data holds an empty line, what that data says if
\* it is taken for headers.
Readings(q) ==
    LET text == NewLine \o q.data
        end == After(text, NewLine \o NewLine, 1)
    IN {Reading(HeaderLines(q.headers), q.data)}
       \cup (IF q.headers = <<>> /\ end # 0
             THEN {Reading(ParseHeaderString(SubSeq(text, 1, end - 3), 1), SubSeq(text, end, Len(text)))}
             ELSE {})

\* "Receives an HTTP query, calls the corresponding handler": however a query is
\* cut into segments the handler gets the same headers and data; if the client's
\* stream ends early, what it gets is missing, never shortened. Only a query with
\* data and no headers at all has two readings, and the segments decide.
QueriesUnderstood ==
    /\ http # "error"
    /\ handled.some =>
        LET r == handled.value[1]
        IN \E whole \in Readings(query) :
            /\ ~cutoff => r = whole
            /\ r.headers \in {Nothing, whole.headers} /\ r.data \in {Nothing, whole.data}

\* "Receives ... and returns the results": the client is given the handler's
\* headers and data, in whatever segments they come, and after these headers only
\* what looks like one in the data; a response that is cut off is told from none,
\* but not from a shorter one.
ResponsesUnderstood ==
    http = "done" /\ answer.some /\ ~cutoff =>
        answer.value = [headers |-> HeaderLines(reply.headers) \o ParseHeaderString(NewLine \o reply.data, 1),
                        data |-> Some(reply.data)]

\* An exchange arrives as it was meant at both ends, in whatever segments and
\* wherever it is cut off.
ExchangesWhole == QueriesUnderstood /\ ResponsesUnderstood
=============================================================================
