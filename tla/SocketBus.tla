------------------------------ MODULE SocketBus ------------------------------
(***************************************************************************)
(* ratchet.bus.new_server() and new_client() (server.lua, client.lua and   *)
(* their transactions): a bus over connections, one request on each.       *)
(*                                                                         *)
(* Messages are sequences of parts, parts are sequences of octets.  What   *)
(* is sent arrives in segments of any size.  The server's thread is always *)
(* in recv_request(); other threads answer its transactions.  Clients may  *)
(* close their connection at any point, and the server's process may end.  *)
(***************************************************************************)
EXTENDS Integers, Sequences

CONSTANTS
    Conns,         \* the connections, each with its client
    NoConn,
    RequestOf,     \* the parts each client sends
    ResponseOf,    \* the parts the server answers it with
    Leavers        \* the connections whose clients may close early

VARIABLES
    peer,          \* what each client is doing
    up, down,      \* octets on their way to the server, and to the client
    backlog,       \* connections not accepted yet
    sockets,       \* self.sockets of the server, without the listening one
    spad,          \* the server's pad of each connection, with pad.data
    updated,       \* self.updated of the server
    served,        \* what recv_request() returned, in order
    answers,       \* what send_response() still has to send, flush by flush
    shut,          \* connections the server has closed
    alive          \* the server's process runs

socketBusVars == <<peer, up, down, backlog, sockets, spad, updated, served, answers, shut, alive>>

Hton16(n) == <<n \div 256, n % 256>>
Hton(n) == <<0, 0>> \o Hton16(n)
Ntoh16(o) == o[1] * 256 + o[2]
Ntoh(o) == Ntoh16(<<o[1], o[2]>>) * 65536 + Ntoh16(<<o[3], o[4]>>)

\* send_part() and its callers: what each flush of the pad sends.
Flushes(parts) ==
    [i \in DOMAIN parts |-> (IF i = 1 THEN Hton16(Len(parts)) ELSE <<>>)
                            \o Hton(Len(parts[i])) \o parts[i]]

NewPeer == [at |-> "idle", left |-> <<>>, rbuf |-> <<>>, got |-> <<>>]
NewBusPad == [rbuf |-> <<>>, num |-> -1, lens |-> <<>>, parts |-> <<>>]
SocketBusInit ==
    /\ peer = [c \in Conns |-> NewPeer]
    /\ up = [c \in Conns |-> <<>>] /\ down = [c \in Conns |-> <<>>]
    /\ backlog = <<>> /\ sockets = {} /\ updated = NoConn
    /\ spad = [c \in Conns |-> NewBusPad]
    /\ served = <<>> /\ answers = [c \in Conns |-> <<>>] /\ shut = {} /\ alive = TRUE

------------------------------------------------------------------------------
Drop(buf, n) == SubSeq(buf, n + 1, Len(buf))

\* pop_num_parts().
PopNumParts(pad) ==
    IF pad.num # -1 \/ Len(pad.rbuf) < 2 THEN pad
    ELSE [rbuf |-> Drop(pad.rbuf, 2), num |-> Ntoh16(pad.rbuf),
          lens |-> <<>>, parts |-> <<>>]

\* pop_part_len() and pop_part_data() of part i, if the parts before it are there.
PopPartLen(pad, i) ==
    IF i <= Len(pad.lens) \/ Len(pad.rbuf) < 4 THEN pad
    ELSE [pad EXCEPT !.rbuf = Drop(pad.rbuf, 4), !.lens = Append(@, Ntoh(pad.rbuf))]
\* Mutant: as much of the data is taken as there is.
PopPartDataEager(pad, i) ==
    IF i <= Len(pad.parts) \/ i > Len(pad.lens) THEN pad
    ELSE LET n == IF Len(pad.rbuf) < pad.lens[i] THEN Len(pad.rbuf) ELSE pad.lens[i]
         IN [pad EXCEPT !.rbuf = Drop(pad.rbuf, n), !.parts = Append(@, SubSeq(pad.rbuf, 1, n))]
PopPartData(pad, i) ==
    IF i <= Len(pad.parts) \/ i > Len(pad.lens) \/ Len(pad.rbuf) < pad.lens[i] THEN pad
    ELSE LET n == pad.lens[i]
         IN [pad EXCEPT !.rbuf = Drop(pad.rbuf, n), !.parts = Append(@, SubSeq(pad.rbuf, 1, n))]
PopPart(pad, i) ==
    IF Len(pad.parts) < i - 1 THEN pad ELSE PopPartData(PopPartLen(pad, i), i)

\* The loop of pop_full_request(): the pad after it, and whether it got through.
PopParts(pad) ==
    LET p == PopNumParts(pad)
        after[i \in Nat] == IF i = 0 THEN p ELSE LET before == after[i - 1] IN PopPart(before, i)
    IN IF p.num > 0 THEN after[p.num] ELSE p
Full(pad) == pad.num # -1 /\ Len(pad.parts) = pad.num

\* check_for_full_requests() with the pads as read: a full request leaves the
\* polled sockets, and table.remove() takes its first part out of pad.data.
CheckForFullRequests(socks, pads, upd) ==
    IF upd = NoConn
    THEN sockets' = socks /\ spad' = pads /\ UNCHANGED <<served, answers>>
    ELSE \E pad \in {PopParts(pads[upd])} :
           IF Full(pad)
           THEN /\ served' = Append(served, [conn |-> upd, parts |-> pad.parts])
                /\ sockets' = socks \ {upd}
                /\ spad' = [pads EXCEPT ![upd] =
                              [pad EXCEPT !.parts = IF pad.num = 0 THEN @ ELSE Tail(@)]]
                /\ answers' = IF upd \in shut THEN answers
                              ELSE [answers EXCEPT ![upd] = Flushes(ResponseOf[upd])]
           ELSE /\ sockets' = socks
                /\ spad' = [pads EXCEPT ![upd] = pad]
                /\ UNCHANGED <<served, answers>>

\* One turn of recv_request(): receive_connections_and_data() accepts a
\* connection, or reads from one that is readable; a closed one stays readable
\* and does not become the updated one.
AcceptConn ==
    /\ alive /\ backlog # <<>>
    /\ backlog' = Tail(backlog)
    /\ UNCHANGED <<peer, up, down, updated, shut, alive>>
    /\ CheckForFullRequests(sockets \cup {Head(backlog)}, spad, updated)
ReadConn(c, n) ==
    /\ alive /\ c \in sockets /\ n \in 1 .. Len(up[c])
    /\ up' = [up EXCEPT ![c] = Drop(@, n)]
    /\ updated' = c
    /\ UNCHANGED <<peer, down, backlog, shut, alive>>
    /\ CheckForFullRequests(sockets, [spad EXCEPT ![c].rbuf = @ \o SubSeq(up[c], 1, n)], c)
ReadClosed(c) ==
    /\ alive /\ c \in sockets /\ up[c] = <<>> /\ peer[c].at \in {"left", "done"}
    /\ UNCHANGED <<peer, up, down, backlog, updated, shut, alive>>
    /\ CheckForFullRequests(sockets, spad, updated)

\* server_transaction:send_response(): flush after flush, then close; sending to
\* a client that left raises an error.
SendResponsePart(c) ==
    /\ alive /\ answers[c] # <<>>
    /\ LET failed == peer[c].at \in {"left", "done"}
       IN /\ answers' = [answers EXCEPT ![c] = IF failed THEN <<>> ELSE Tail(@)]
          /\ down' = IF failed THEN down ELSE [down EXCEPT ![c] = @ \o Head(answers[c])]
          /\ shut' = IF failed \/ Len(answers[c]) > 1 THEN shut ELSE shut \cup {c}
    /\ UNCHANGED <<peer, up, backlog, sockets, spad, updated, served, alive>>

\* The server's process ends: its connections are closed.
ServerEnds ==
    /\ alive /\ alive' = FALSE /\ shut' = Conns
    /\ UNCHANGED <<peer, up, down, backlog, sockets, spad, updated, served, answers>>

------------------------------------------------------------------------------
\* client:send_request(), flush by flush, on a connected socket.
ClientConnects(c) ==
    /\ alive /\ peer[c].at = "idle"
    /\ backlog' = Append(backlog, c)
    /\ peer' = [peer EXCEPT ![c].at = "send", ![c].left = Flushes(RequestOf[c])]
    /\ UNCHANGED <<up, down, sockets, spad, updated, served, answers, shut, alive>>
ClientSends(c) ==
    /\ peer[c].at = "send"
    /\ IF c \in shut
       THEN peer' = [peer EXCEPT ![c].at = "failed"] /\ UNCHANGED up
       ELSE /\ up' = [up EXCEPT ![c] = @ \o Head(peer[c].left)]
            /\ peer' = [peer EXCEPT ![c].left = Tail(@),
                                    ![c].at = IF Len(peer[c].left) = 1 THEN "recv" ELSE "send"]
    /\ UNCHANGED <<down, backlog, sockets, spad, updated, served, answers, shut, alive>>

\* client_transaction:recv_response(): the count, then each part in turn.  At
\* the end of the stream: nothing without a count; a part cut short closes the
\* pad, so the next part is an error, and the last one is left out.
ReceivedAs(pad, ended) ==
    CASE Full(pad) -> "done"
      [] ~Full(pad) /\ ~ended -> "recv"
      [] ended /\ pad.num = -1 -> "nothing"
      [] ended /\ pad.num > 0 /\ Len(pad.parts) = pad.num - 1 -> "done"
      [] OTHER -> "failed"
RecvResponseParts(c, n) ==
    /\ peer[c].at = "recv"
    /\ n \in 1 .. Len(down[c]) \/ (n = 0 /\ down[c] = <<>> /\ c \in shut)
    /\ down' = [down EXCEPT ![c] = Drop(@, n)]
    /\ \E rbuf \in {peer[c].rbuf \o SubSeq(down[c], 1, n)} :
       \E pad \in {PopParts([NewBusPad EXCEPT !.rbuf = rbuf])} :
           LET at == ReceivedAs(pad, n = 0)
           IN peer' = [peer EXCEPT ![c] = [at |-> at, left |-> <<>>, rbuf |-> rbuf,
                                           got |-> IF at = "done" THEN pad.parts ELSE <<>>]]
    /\ UNCHANGED <<up, backlog, sockets, spad, updated, served, answers, shut, alive>>

\* A client closes its connection before it has its response.
ClientLeaves(c) ==
    /\ c \in Leavers /\ peer[c].at \in {"send", "recv"}
    /\ peer' = [peer EXCEPT ![c].at = "left"]
    /\ UNCHANGED <<up, down, backlog, sockets, spad, updated, served, answers, shut, alive>>

ServerTurn ==
    AcceptConn \/ \E c \in Conns : ReadClosed(c) \/ \E n \in 1 .. Len(up[c]) : ReadConn(c, n)
ClientTurn(c) ==
    ClientConnects(c) \/ ClientSends(c) \/ \E n \in 0 .. Len(down[c]) : RecvResponseParts(c, n)
SocketBusNext ==
    \/ ServerTurn \/ ServerEnds
    \/ \E c \in Conns : SendResponsePart(c) \/ ClientTurn(c) \/ ClientLeaves(c)

------------------------------------------------------------------------------
SocketBusTypeOK ==
    /\ sockets \subseteq Conns /\ shut \subseteq Conns /\ updated \in Conns \cup {NoConn}
    /\ \A c \in Conns : peer[c].at \in {"idle", "send", "recv", "done", "nothing", "failed", "left"}
    /\ \A c \in Conns : spad[c].num \in -1 .. 65535

\* "Receiving a request will wait for a new client connection and a request on
\* that connection": recv_request() returns what one client sent, whole, and
\* returns it once, whatever other connections do meanwhile.  Requests end in a
\* part that is not empty here: self.updated still names the pad of the request
\* returned last, and an empty last part would be read again at the next event
\* that brings no data.
RequestsWhole ==
    \A i \in DOMAIN served :
        /\ served[i].parts = RequestOf[served[i].conn]
        /\ \A j \in DOMAIN served : served[j].conn = served[i].conn => i = j

\* "The response is then sent back over the connection": a client is told the
\* response to its own request; if the server ends while it sends, at most the
\* last part is missing, and never is a part shortened.
ResponsesOwn ==
    \A c \in Conns : peer[c].at = "done" =>
        LET r == ResponseOf[c]
        IN /\ \E i \in DOMAIN served : served[i].conn = c
           /\ peer[c].got = r \/ (~alive /\ peer[c].got = SubSeq(r, 1, Len(r) - 1))

\* A transaction over a connection is whole in both directions: one request, as
\* it was sent, and its own response.
TransactionsWhole == RequestsWhole /\ ResponsesOwn

\* A request that was sent is received, unless the server ends or a client has
\* closed its connection early: a closed connection is readable for ever, and
\* recv_request() may turn to it every time.
RequestsReceived ==
    \A c \in Conns : peer[c].at = "recv" ~>
        \/ \E i \in DOMAIN served : served[i].conn = c
        \/ ~alive \/ \E d \in Conns : peer[d].at = "left"
=============================================================================
