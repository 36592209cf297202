-------------------------------- MODULE MCNet --------------------------------
(***************************************************************************)
(* Programs of up to three threads for Net.                                *)
(***************************************************************************)
EXTENDS Net

C(op, s) == [op |-> op, s |-> s, r |-> 0, ss |-> {}, data |-> <<>>, n |-> 2, how |-> "none", more |-> FALSE]
Pair(s, r) == [C("new_pair", s) EXCEPT !.r = r]
AcceptTo(s, r) == [C("accept", s) EXCEPT !.r = r]
SendOf(s, d) == [C("send", s) EXCEPT !.data = d]
Shut(s, how) == [C("shutdown", s) EXCEPT !.how = how]
Multi(ss) == [C("multi_recv", 0) EXCEPT !.ss = ss]
Chunk(s, n) == [C("send_behavior", s) EXCEPT !.how = "chunk_size", !.n = n]
Always(s) == [C("send_behavior", s) EXCEPT !.how = "always_flush"]
PadPut(s, d, more) == [C("pad_send", s) EXCEPT !.data = d, !.more = more]
PadGet(s, n) == [C("pad_recv", s) EXCEPT !.n = n]
PadLine(s, d) == [C("pad_recv", s) EXCEPT !.data = d]
ZPut(i, d, more) == [C("zmq_send", i) EXCEPT !.data = d, !.more = more]
ZGet(i) == C("zmq_recv", i)

Prog(a1, p1, a2, p2, a3, p3) == [after |-> <<a1, a2, a3>>, prog |-> <<p1, p2, p3>>,
    orderly |-> TRUE, single |-> TRUE, pads |-> FALSE, ends |-> TRUE]

\* A stream with short sends and a half close.
Stream1 == Prog(0, <<Pair(1, 2), SendOf(1, <<1, 2, 3>>), Shut(1, "write"), C("recv", 1)>>,
                1, <<C("recv", 2), C("recv", 2), C("recv", 2), SendOf(2, <<4>>), C("close", 2)>>, 0, <<>>)
\* The same with timeouts, and a reader that leaves early.
Stream2 == Prog(0, <<Pair(1, 2), C("set_timeout", 1), SendOf(1, <<1, 2, 3>>), SendOf(1, <<5>>), C("close", 1)>>,
                2, <<C("set_timeout", 2), C("recv", 2), C("recv", 2), Shut(2, "read"), C("recv", 2)>>, 0, <<>>)
\* Two readers on one socket, one of them with a timeout.
Share == [Prog(0, <<Pair(1, 2), SendOf(1, <<1, 2, 3>>), SendOf(1, <<4>>), C("close", 1)>>,
              2, <<C("recv", 2), C("recv", 2)>>,
              2, <<C("set_timeout", 2), C("recv", 2), SendOf(2, <<7, 8, 9>>), C("recv", 2)>>)
             EXCEPT !.ends = FALSE]
\* Two threads accept from one listener; a client connects.
Accept1 == Prog(0, <<C("new", 1), C("set_timeout", 1), C("listen", 1), AcceptTo(1, 3), C("recv", 3)>>,
                1, <<C("set_timeout", 1), AcceptTo(1, 4), C("recv", 4)>>,
                1, <<C("new", 2), C("connect", 2), SendOf(2, <<1>>), C("close", 2)>>)
\* The listener is closed under a client and under an acceptor.
Accept2 == [Prog(0, <<C("new", 1), C("listen", 1), C("close", 1), Pair(3, 4), SendOf(3, <<7>>)>>,
                 1, <<C("new", 2), C("connect", 2), C("connect", 2), C("recv", 2)>>,
                 1, <<C("set_timeout", 1), AcceptTo(1, 5)>>) EXCEPT !.orderly = FALSE, !.ends = FALSE]
\* A socket is closed under its reader and its writer, and its number reused.
Reuse == [Prog(0, <<Pair(1, 2), C("close", 1), Pair(3, 4), SendOf(4, <<8, 9>>), C("close", 2)>>,
               1, <<C("recv", 1), SendOf(1, <<5>>)>>,
               3, <<C("recv", 3), C("recv", 3)>>) EXCEPT !.orderly = FALSE, !.ends = FALSE]
ReuseWrite == [Reuse EXCEPT !.prog[3] = <<SendOf(3, <<1, 2, 3>>), C("recv", 3)>>]
ReuseTimed == [Reuse EXCEPT !.prog[1] = <<Pair(1, 2), C("set_timeout", 1)>> \o Tail(@)]
\* Every descriptor is in use while a connection waits to be accepted; calls on
\* a closed object and on a socket that does not listen.
Full == [Prog(0, <<Pair(1, 2), C("new", 3), Pair(4, 5), C("timerfd", 4), C("new", 5), C("listen", 3),
                  C("close", 1), C("close", 1), C("listen", 1), C("connect", 1), Shut(1, "both"), AcceptTo(1, 2),
                  SendOf(1, <<1>>), C("recv", 1), C("new", 5), C("timerfd", 4), AcceptTo(3, 1),
                  C("close", 2), AcceptTo(3, 1), C("listen", 1), AcceptTo(1, 2)>>,
             5, <<C("connect", 5)>>, 0, <<>>) EXCEPT !.ends = FALSE]
\* TLS: handshakes, records longer than a receive and than the connection
\* holds, an orderly shutdown.
Tls1 == Prog(0, <<Pair(1, 2), C("encrypt", 1), C("client_handshake", 1), SendOf(1, <<1, 2, 3>>),
                  C("recv", 1), C("tls_shutdown", 1), C("close", 1)>>,
             1, <<C("encrypt", 2), C("server_handshake", 2), C("recv", 2), C("recv", 2),
                  SendOf(2, <<7>>), C("tls_shutdown", 2), C("close", 2)>>, 0, <<>>)
\* TLS with timeouts; the writer leaves without a shutdown.
Tls2 == Prog(0, <<Pair(1, 2), C("set_timeout", 1), C("encrypt", 1), C("client_handshake", 1),
                  SendOf(1, <<1, 2, 3>>), SendOf(1, <<4>>), C("close", 1)>>,
             1, <<C("encrypt", 2), C("set_timeout", 2), C("server_handshake", 2), C("recv", 2),
                  C("recv", 2), C("recv", 2)>>, 0, <<>>)
\* One thread writes and one reads on a session.
Tls3 == Prog(0, <<Pair(1, 2), C("encrypt", 1), C("client_handshake", 1), C("new", 5), SendOf(1, <<1, 2, 3>>)>>,
             1, <<C("encrypt", 2), C("server_handshake", 2), SendOf(2, <<7, 8, 9>>), C("recv", 2), C("recv", 2)>>,
             5, <<C("recv", 1), C("recv", 1)>>)
Tls4 == [Tls3 EXCEPT !.prog[1] = <<Pair(1, 2), C("set_timeout", 1)>> \o Tail(@), !.ends = FALSE]
Tls5 == [Tls3 EXCEPT !.prog[1] = <<Pair(1, 2), C("set_timeout", 2)>> \o Tail(@), !.ends = FALSE]
\* Waiting for either of two sockets.
Multi1 == Prog(0, <<Pair(1, 2), Pair(3, 4), Multi({1, 3}), Multi({1, 3}), Multi({1, 3})>>,
               3, <<SendOf(2, <<1>>)>>, 3, <<SendOf(4, <<2>>), C("close", 4)>>)
Timer1 == Prog(0, <<C("timerfd", 1), C("settime", 1), C("timer_read", 1), C("settime", 1), C("timer_read", 1),
                    C("close", 1), C("settime", 1), C("timer_read", 1)>>,
               0, <<Pair(2, 3), Multi({2})>>, 2, <<SendOf(3, <<1>>)>>)
\* Pads: chunks, delimiters across segments, a stream that ends early.
Chunked(chunk) ==
         [Prog(0, <<Pair(1, 2), Chunk(1, chunk), PadPut(1, <<1>>, TRUE), PadPut(1, <<2, 8, 9, 3>>, TRUE),
                    PadPut(1, <<>>, TRUE), PadPut(1, <<4, 5>>, FALSE), C("close", 1)>>,
               1, <<PadLine(2, <<8, 9>>), PadGet(2, 2), C("update_and_peek", 2), PadGet(2, 5),
                    C("recv_remaining", 2)>>, 0, <<>>) EXCEPT !.pads = TRUE]
\* chunk_size is set below what the pad has buffered.
ChunkedLate(chunk) ==
         [Prog(0, <<Pair(1, 2), PadPut(1, <<1, 2, 3>>, TRUE), Chunk(1, chunk), PadPut(1, <<4, 5>>, TRUE),
                    PadPut(1, <<6>>, FALSE), C("close", 1)>>,
               1, <<PadGet(2, 4), PadGet(2, 9)>>, 0, <<>>) EXCEPT !.pads = TRUE]
\* Two threads send on one pad.
PadsShared == [Prog(0, <<Pair(1, 2), PadPut(1, <<1, 2, 3>>, FALSE), PadPut(1, <<4>>, TRUE)>>,
               1, <<PadGet(2, 2), C("recv_remaining", 2), PadGet(2, 9)>>,
               1, <<Always(1), PadPut(1, <<5, 6>>, TRUE)>>)
             EXCEPT !.pads = TRUE, !.single = FALSE, !.ends = FALSE]
\* ZeroMQ: messages of several parts both ways, a receiver with a timeout.
Zmq1 == Prog(0, <<ZPut(1, <<1>>, TRUE), ZPut(1, <<2>>, FALSE), ZPut(1, <<3>>, FALSE), ZGet(1), ZGet(1)>>,
             0, <<ZPut(2, <<4>>, FALSE), ZGet(2), ZPut(2, <<5>>, FALSE), ZGet(2)>>, 0, <<>>)
Zmq2 == [Prog(0, <<ZPut(1, <<1>>, FALSE), ZPut(1, <<2>>, TRUE), ZPut(1, <<3>>, FALSE), ZPut(1, <<4>>, FALSE)>>,
              0, <<C("zmq_set_timeout", 2), ZGet(2), ZGet(2), ZGet(2), ZGet(2)>>, 0, <<>>) EXCEPT !.ends = FALSE]

PadsFree == Chunked(0)
PadsBy1 == Chunked(1)
PadsBy2 == Chunked(2)
PadsBy3 == Chunked(3)
PadsLate1 == ChunkedLate(1)
PadsLate2 == ChunkedLate(2)
MCConfs ==
    {Stream1, Stream2, Share, Accept1, Accept2, Reuse, ReuseWrite, ReuseTimed, Full, Tls1, Tls2, Tls3, Tls4, Tls5,
      Multi1, Timer1, PadsFree, PadsBy1, PadsBy2, PadsBy3, PadsLate1, PadsLate2, PadsShared, Zmq1, Zmq2}
=============================================================================
