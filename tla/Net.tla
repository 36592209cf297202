--------------------------------- MODULE Net ---------------------------------
(***************************************************************************)
(* Threads that use sockets, TLS sessions, socket pads, timer descriptors  *)
(* and ZeroMQ sockets in one process: the composition of Sockets,          *)
(* SocketPad and Zmq over one table of descriptors.                        *)
(*                                                                         *)
(* Program.orderly says that no thread closes an object another thread     *)
(* waits on or has a session of in use; Program.single that no two threads  *)
(* share a pad or a ZeroMQ socket; Program.ends that no thread is meant to  *)
(* wait forever.                                                           *)
(***************************************************************************)
EXTENDS SocketPad, Zmq

sockets == <<conf, sock, sess, th, descriptors, streams>>
vars == <<sockets, pads, zmq>>

Init == SocketsInit /\ PadInit /\ ZInit

Step(t) ==
    \/ SocketStep(t) /\ UNCHANGED <<pads, zmq>>
    \/ PadStep(t) /\ UNCHANGED zmq
    \/ ZStep(t) /\ UNCHANGED pads
Event(t) ==
    \/ (Fire(t) \/ Late(t)) /\ UNCHANGED <<pads, zmq>>
    \/ ZFire(t) /\ UNCHANGED pads
Outside ==
    \/ System /\ UNCHANGED <<pads, zmq>>
    \/ \E i \in ZSocks : ZDeliver(i) /\ UNCHANGED pads
Collect == \E s \in Socks : Gc(s) /\ UNCHANGED <<pads, zmq>>

Next == Outside \/ Collect \/ \E t \in Threads : Step(t) \/ Event(t)
Spec == Init /\ [][Next]_vars

\* The kernel resumes a ready thread, libevent reports what epoll reports and
\* what timed out, and the other end of a connection attempt reacts.  The weak
\* fairness of a thread's steps is written out, with CanStep for their ENABLED.
CanStep(t) ==
    /\ th[t].at \in {"idle", "active", "late"} /\ Op(t) # "end"
    /\ Program.after[t] # 0 => sock[Program.after[t]].end # NoFile
FairSpec ==
    /\ Spec
    /\ WF_vars(Outside)
    /\ \A t \in Threads : /\ []<>~CanStep(t) \/ []<><<Step(t)>>_vars
                          /\ WF_vars(Event(t))

------------------------------------------------------------------------------
TypeOK ==
    /\ \A f \in Fds : ep[f] \subseteq Dirs /\ (fdt[f] = NoFile => ep[f] = {})
    /\ \A s \in Socks : sock[s].fd \in 0 .. NFds
    /\ \A t \in Threads : th[t].at \in {"idle", "wait", "active", "late", "ended"}
    /\ \A c \in Conns, side \in Sides : Len(conn[c].in[side]) <= Cap
    /\ Len(backlog) <= Backlog

IsPrefixOf(a, b) == Len(a) <= Len(b) /\ SubSeq(b, 1, Len(a)) = a
Untouched == Program.orderly \/ \A s \in Socks : sess[s] = NoSession

\* Descriptor numbers are reused as soon as they are closed.  Still an object's
\* number names the very file the object was made for, so that what a thread
\* does after a yield never goes to somebody else's connection, and no
\* connection is handed to two objects (rsock_close, rsock_gc, rsock_accept).
ObjectsOwn ==
    \A s \in Socks :
        /\ sock[s].fd # 0 => fdt[sock[s].fd] = sock[s].end
        /\ \A r \in Socks \ {s} : sock[s].end # NoFile => sock[s].end # sock[r].end

\* The bytes threads receive from an object are those sent through the object at
\* the other end, in order and none lost in between.
BytesInOrder ==
    \A c \in Conns, side \in Sides : IsPrefixOf(got[c][side], put[c][OtherSide(side)])
\* No byte of a call is sent twice: programs send distinct bytes.
NoneTwice ==
    \A c \in Conns, side \in Sides : \A i, j \in DOMAIN put[c][side] :
        put[c][side][i] = put[c][side][j] => i = j
\* recv_all() returns ZeroMQ's messages whole, once and in order.
ZmqInOrder == \A i \in ZSocks : IsPrefixOf(zgot[i], zput[ZPeer(i)])
\* All of this holds whatever is interleaved, timed out, sent short, retried,
\* encrypted or closed (rsock_send, rsock_recv, rssl_session_write,
\* rssl_session_read, the loop of socketpad:flush, rzmq_recv_all), but for a pad that
\* sends twice because its chunk_size was set to one less than it held
\* (update_send_buffer).
Resent == \E s \in Socks : pad[s].twice
StreamsIntact == (Untouched => BytesInOrder /\ (NoneTwice \/ Resent)) /\ ZmqInOrder

\* The empty string from recv() means that everything the other end sent was
\* received, unless the reader shut its own side down; a TLS session that is cut
\* off without a close notification never shows as a clean end.
EofMeansAll ==
    Untouched =>
        \A e \in eof : e[2] \notin conn[e[1]].noread =>
            got[e[1]][e[2]] = put[e[1]][OtherSide(e[2])]

\* How often a byte is on its way through the calls of send() under way.
Sending(s) == {t \in Threads : Op(t) = "pad_send" /\ Call(t).s = s}
Places(v, d) == {i \in DOMAIN d : d[i] = v}
Count(v, d) == Cardinality(Places(v, d))
InCalls(T, v) ==
    Cardinality(UNION {{t} \X Places(v, th[t].left \o th[t].rest) : t \in T})

\* A pad hands out the bytes of its socket in order, at every boundary of
\* segments.  Nothing given to it is lost or doubled on its way to the socket,
\* although flush() empties the buffer before it sends and other threads may use
\* the pad while it waits, as long as no send fails; with one thread per pad the
\* bytes leave in the order they were given, however short the sends, whatever the
\* chunk size and whenever it is set.  One case is excepted: chunk_size set to one
\* less than the pad has buffered makes the next send() pass its data on twice;
\* still none is lost.
PadsIntact ==
    \A s \in Socks :
        LET came == taken[s] \o pad[s].rbuf
            end == sock[s].end
            out == put[end[1]][end[2]]
            sending == Sending(s)
            Passed(v) == Count(v, out) + InCalls(sending, v) + Count(v, pad[s].sbuf)
        IN  /\ came # <<>> /\ end \in Conns \X Sides => came = got[end[1]][end[2]]
            /\ given[s] # <<>> /\ Program.pads =>
                 /\ \A v \in {given[s][i] : i \in DOMAIN given[s]} :
                       Passed(v) - Count(v, given[s]) \in IF pad[s].twice THEN Nat ELSE {0}
                 /\ Program.single /\ ~pad[s].twice => IsPrefixOf(out, given[s])

\* The descriptor of a ZeroMQ socket signals news only once, and send() takes
\* them in too: a thread that waits for a message that has arrived is still going
\* to be woken, if one thread uses the socket.
ZmqWakes ==
    Program.single =>
        \A t \in Threads : th[t].at = "wait" /\ th[t].mode = "zmq_r" /\ z[Call(t).s].q # <<>> =>
            z[Call(t).s].news

\* Programs that always give each other what they wait for come to their end:
\* connect() against accept(), handshakes, short sends, shutdown, pads, timers.
CallsEnd == \A t \in Threads : (Program.ends) ~> (Op(t) = "end")
=============================================================================
