--------------------------------- MODULE Zmq ---------------------------------
(***************************************************************************)
(* ratchet.zmqsocket objects: two ZeroMQ sockets connected with each other.*)
(*                                                                         *)
(* The descriptor of a ZeroMQ socket is not the connection's: it becomes   *)
(* readable when the library has news for the socket, and asking for       *)
(* ZMQ_EVENTS takes all news in, whatever they are about.  The library     *)
(* sends news of a message only if the reader had found the socket empty.  *)
(* The descriptor is always writable.  All parts of a message arrive       *)
(* together.                                                               *)
(***************************************************************************)
EXTENDS Sockets

CONSTANT ZHwm    \* messages a ZeroMQ socket holds for its peer

ZSocks == {1, 2}
ZOps == {"zmq_set_timeout", "zmq_send", "zmq_recv"}
\* Threads that share no ZeroMQ socket: what a configuration says of itself as single.
ZmqApart(p) ==
    \A t, u \in 1 .. NThreads : \A i \in DOMAIN p[t], j \in DOMAIN p[u] :
        t # u /\ {p[t][i].op, p[u][j].op} \subseteq ZOps => p[t][i].s # p[u][j].s
ASSUME ZmqAssumption ==
    \A p \in Confs :
        /\ \A c \in Calls(p) : c.op \in ZOps => c.s \in ZSocks
        /\ p.single => ZmqApart(p.prog)

VARIABLES
    z,         \* socket -> [q, news, asleep, out, timed]
    zput, zgot \* socket -> messages sent, and messages recv_all() returned, in order

zmq == <<z, zput, zgot>>
ZPeer(i) == 3 - i
NewZ == [wire |-> <<>>,      \* messages on their way to the socket
         q |-> <<>>,         \* messages that arrived
         news |-> FALSE, asleep |-> FALSE,
         out |-> <<>>,       \* parts sent of an unfinished message
         timed |-> FALSE]

\* zmq_getsockopt(ZMQ_EVENTS): the news are taken in.
Asked(i) == [z[i] EXCEPT !.news = FALSE, !.asleep = z[i].q = <<>>]
Pollin(i) == z[i].q # <<>>
Pollout(i) == Len(z[ZPeer(i)].wire) + Len(z[ZPeer(i)].q) < ZHwm

\* The library's I/O thread delivers a message.
ZDeliver(i) ==
    /\ z[i].wire # <<>>
    /\ z' = [z EXCEPT ![i].wire = Tail(@), ![i].q = Append(@, Head(z[i].wire)),
                      ![i].news = @ \/ z[i].asleep, ![i].asleep = FALSE]
    /\ UNCHANGED <<zput, zgot, conf, sock, sess, th, descriptors, streams>>

\* The kernel's wait for the socket's descriptor.
ZFire(t) ==
    /\ th[t].at = "wait" /\ th[t].mode \in {"zmq_r", "zmq_w"}
    /\ th[t].mode = "zmq_r" => z[Call(t).s].news
    /\ th' = [th EXCEPT ![t].at = "active"]
    /\ UNCHANGED <<zmq, conf, sock, sess, descriptors, streams>>
ZWaits(t, mode) ==
    th' = [th EXCEPT ![t].at = "wait", ![t].mode = mode, ![t].timed = z[Call(t).s].timed]
ZReturns(t) == th' = [th EXCEPT ![t] = Finished(t)]

ZSetTimeout(t) ==
    /\ Begins(t, "zmq_set_timeout")
    /\ z' = [z EXCEPT ![Call(t).s].timed = TRUE]
    /\ ZReturns(t)
    /\ UNCHANGED <<zput, zgot, conf, sock, sess, descriptors, streams>>

\* rzmq_rawsend(): a part that more follow is kept by the library.
ZRawSend(i, part, more) ==
    LET parts == Append(z[i].out, part)
    IN IF more
       THEN /\ z' = [z EXCEPT ![i] = [Asked(i) EXCEPT !.out = parts]]
            /\ UNCHANGED <<zput, zgot>>
       ELSE /\ z' = [z EXCEPT ![i] = [Asked(i) EXCEPT !.out = <<>>],
                              ![ZPeer(i)].wire = Append(@, parts)]
            /\ zput' = [zput EXCEPT ![i] = Append(@, parts)]
            /\ UNCHANGED zgot

\* rzmq_send() of one part.
ZSend(t) ==
    LET i == Call(t).s
    IN /\ Begins(t, "zmq_send") \/ Retries(t, "zmq_send")
       /\ IF Pollout(i)
          THEN ZRawSend(i, Call(t).data, Call(t).more) /\ ZReturns(t)
          ELSE z' = [z EXCEPT ![i] = Asked(i)] /\ ZWaits(t, "zmq_w") /\ UNCHANGED <<zput, zgot>>
       /\ UNCHANGED <<conf, sock, sess, descriptors, streams>>

\* rzmq_rawrecv(), for all parts of a message: the rest of a message is
\* readable when its first part is.
ZRawRecv(i) ==
    /\ z' = [z EXCEPT ![i] = [Asked(i) EXCEPT !.q = Tail(@)],
                      ![ZPeer(i)].news = @ \/ ~Pollout(ZPeer(i))]
    /\ zgot' = [zgot EXCEPT ![i] = Append(@, Head(z[i].q))]

\* Mutant: recv() yields before it looks.
ZRecvBlind(t) ==
    LET i == Call(t).s
    IN /\ Begins(t, "zmq_recv") \/ Retries(t, "zmq_recv")
       /\ IF th[t].at = "active" /\ Pollin(i)
          THEN ZRawRecv(i) /\ ZReturns(t)
          ELSE z' = [z EXCEPT ![i] = Asked(i)] /\ ZWaits(t, "zmq_r") /\ UNCHANGED zgot
       /\ UNCHANGED <<zput, conf, sock, sess, descriptors, streams>>
\* rzmq_recv_all() and rzmq_recv().
ZRecvAll(t) ==
    LET i == Call(t).s
    IN /\ Begins(t, "zmq_recv") \/ Retries(t, "zmq_recv")
       /\ IF Pollin(i)
          THEN ZRawRecv(i) /\ ZReturns(t)
          ELSE z' = [z EXCEPT ![i] = Asked(i)] /\ ZWaits(t, "zmq_r") /\ UNCHANGED zgot
       /\ UNCHANGED <<zput, conf, sock, sess, descriptors, streams>>

\* When the wait timed out, send() and recv() return nothing; recv_all() takes
\* that for a last part and returns the empty string, which is no message.
ZTimedOut(t) ==
    /\ th[t].at = "late" /\ Op(t) \in {"zmq_recv", "zmq_send"}
    /\ ZReturns(t)
    /\ UNCHANGED <<zmq, conf, sock, sess, descriptors, streams>>

ZInit ==
    /\ z = [i \in ZSocks |-> NewZ]
    /\ zput = [i \in ZSocks |-> <<>>]
    /\ zgot = zput
ZStep(t) == ZSetTimeout(t) \/ ZSend(t) \/ ZRecvAll(t) \/ ZTimedOut(t)
=============================================================================
