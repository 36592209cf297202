------------------------------ MODULE DnsSocket ------------------------------
(***************************************************************************)
(* libdns' struct dns_socket: one UDP and one TCP descriptor that carry    *)
(* one question at a time, and the network on the far side of them.        *)
(*                                                                         *)
(* dns_so_check() is one switch that falls from state to state until a     *)
(* system call would block or fails; here every case is an action, enabled *)
(* while pc = "check".  A return of dns_so_check() sets pc to "checked"    *)
(* and err to its result (OK for 0).                                       *)
(*                                                                         *)
(* The network is the environment: a datagram may be lost (the server      *)
(* never answers), answered late, answered twice, truncated, or refused by *)
(* an ICMP message; a TCP connection may be refused, cut, or accept only   *)
(* part of what is sent.                                                   *)
(***************************************************************************)
EXTENDS Integers, Sequences, FiniteSets

CONSTANTS
    Answers(_, _),  \* Answers(remote, question): the replies a server may give
    QLen,           \* units a question takes on a stream, length prefix included
    MaxQueue,       \* datagrams the UDP socket holds
    QIds            \* query identifiers

AllFaults == {"icmp", "trunc", "dup", "runt", "tcp_refused", "tcp_eof", "short"}

ASSUME DnsSocketAssumption ==
    /\ QLen \in Nat \ {0} /\ MaxQueue \in Nat \ {0}

None == [none |-> TRUE]
OK == "OK"
EAGAIN == "EAGAIN"

VARIABLES
    so,       \* the fields of struct dns_socket
    udp,      \* the UDP descriptor: its peer, its receive queue, a pending ICMP error
    tcp,      \* the TCP descriptor: connection state, what was sent, what can be read
    wire,     \* the set of datagrams on their way to a server
    faults,   \* which of AllFaults the network shows
    now,      \* time(NULL), in seconds
    pc, err   \* where the resolver's thread is; the last result of dns_so_check()

soVars == <<so, udp, tcp, wire>>

Closed == [st |-> "closed", sent |-> <<>>, in |-> <<>>, replied |-> 0, eof |-> FALSE]
Question(q) == [qname |-> q.qname, qtype |-> q.qtype, rd |-> q.rd]

\* dns_so_reset() zeroes everything from "state" down; the socket's type and
\* the list of old descriptors stay.
SoReset(type, old) ==
    [type |-> type, old |-> old, state |-> "IDLE", qid |-> 0, query |-> None,
     remote |-> None, qout |-> 0, began |-> 0, answer |-> None, apos |-> 0]

\* dns_so_init(): a UDP socket, no TCP socket, an empty list of old descriptors.
SoInit(type) == SoReset(type, 0)
UdpInit == [open |-> TRUE, peer |-> None, queue |-> <<>>, icmp |-> FALSE]

\* dns_so_mkqid(): the permutor does not repeat an identifier for 65535 steps,
\* so a new one differs from those of the datagrams still in flight.
FreshQIds(inUse) ==
    QIds \ (inUse \cup {d.qid : d \in wire}
                  \cup {udp.queue[i].qid : i \in DOMAIN udp.queue})

\* dns_so_submit(): the socket starts over with query q for remote.
Submit(q, remote) ==
    [SoReset(so.type, so.old) EXCEPT !.query = q, !.qid = q.qid, !.remote = remote, !.began = now,
                      !.state = IF so.type = "STREAM" THEN "TCP_INIT" ELSE "UDP_INIT"]

\* dns_so_elapsed()
SoElapsed == IF now > so.began THEN now - so.began ELSE 0

\* Mutant: the identifier and the name are not compared.
VerifyType(p) == p.qtype = so.query.qtype
\* dns_so_verify(): the reply carries the identifier and the question asked.
Verify(p) ==
    /\ p.qid = so.qid
    /\ p.qname = so.query.qname /\ p.qtype = so.query.qtype

Return(e) == pc' = "checked" /\ err' = e
Stay == UNCHANGED <<pc, err>>
Checking(states) == pc = "check" /\ so.state \in states

-----------------------------------------------------------------------------
(* The cases of dns_so_check().                                            *)

SoUdpConn ==
    /\ Checking({"UDP_INIT", "UDP_CONN"})
    /\ udp' = [udp EXCEPT !.peer = so.remote]
    /\ so' = [so EXCEPT !.state = "UDP_SEND"]
    /\ Stay /\ UNCHANGED <<tcp, wire, faults, now>>

Datagram == [remote |-> so.remote, qid |-> so.qid, qname |-> so.query.qname,
             qtype |-> so.query.qtype, rd |-> so.query.rd, dup |-> FALSE]

SoUdpSend ==
    /\ Checking({"UDP_SEND"})
    /\ \/ /\ udp.icmp
          /\ udp' = [udp EXCEPT !.icmp = FALSE]
          /\ Return("ECONNREFUSED") /\ UNCHANGED <<so, wire>>
       \/ /\ ~udp.icmp
          /\ wire' = wire \cup {Datagram}
          /\ so' = [so EXCEPT !.state = "UDP_RECV"]
          /\ Stay /\ UNCHANGED udp
    /\ UNCHANGED <<tcp, faults, now>>

\* Mutant: a runt is an error.
UdpRecvFails ==
    /\ Checking({"UDP_RECV"})
    /\ \/ /\ udp.icmp
          /\ udp' = [udp EXCEPT !.icmp = FALSE]
          /\ Return("ECONNREFUSED") /\ UNCHANGED so
       \/ /\ ~udp.icmp /\ udp.queue = <<>>
          /\ Return(EAGAIN) /\ UNCHANGED <<so, udp>>
       \/ /\ ~udp.icmp /\ udp.queue # <<>>
          /\ udp' = [udp EXCEPT !.queue = Tail(@)]
          /\ LET p == Head(udp.queue)
             IN  IF ~p.runt /\ Verify(p)
                 THEN so' = [so EXCEPT !.answer = p, !.state = "UDP_DONE"]
                 ELSE UNCHANGED so
          /\ IF Head(udp.queue).runt THEN Return("EUNKNOWN") ELSE Stay
    /\ UNCHANGED <<tcp, wire, faults, now>>

\* A runt or a datagram that answers something else is thrown away and the
\* socket read again ("trash").
SoUdpRecv ==
    /\ Checking({"UDP_RECV"})
    /\ \/ /\ udp.icmp
          /\ udp' = [udp EXCEPT !.icmp = FALSE]
          /\ Return("ECONNREFUSED") /\ UNCHANGED so
       \/ /\ ~udp.icmp /\ udp.queue = <<>>
          /\ Return(EAGAIN) /\ UNCHANGED <<so, udp>>
       \/ /\ ~udp.icmp /\ udp.queue # <<>>
          /\ udp' = [udp EXCEPT !.queue = Tail(@)]
          /\ LET p == Head(udp.queue)
             IN  IF ~p.runt /\ Verify(p)
                 THEN so' = [so EXCEPT !.answer = p, !.state = "UDP_DONE"]
                 ELSE UNCHANGED so
          /\ Stay
    /\ UNCHANGED <<tcp, wire, faults, now>>

SoUdpDone ==
    /\ Checking({"UDP_DONE"})
    /\ IF ~so.answer.tc \/ so.type = "DGRAM"
       THEN Return(OK) /\ UNCHANGED so
       ELSE Stay /\ so' = [so EXCEPT !.state = "TCP_INIT"]
    /\ UNCHANGED <<udp, tcp, wire, faults, now>>

\* dns_so_closefd(): a descriptor is not closed but kept in so->old.
CloseFd(s) == IF tcp.st = "closed" THEN s ELSE [s EXCEPT !.old = @ + 1]

SoTcpInit ==
    /\ Checking({"TCP_INIT"})
    /\ so' = [CloseFd(so) EXCEPT !.state = "TCP_CONN"]
    /\ tcp' = [Closed EXCEPT !.st = "new"]
    /\ Stay /\ UNCHANGED <<udp, wire, faults, now>>

\* EINPROGRESS and EALREADY become EAGAIN, EISCONN counts as connected.
SoTcpConn ==
    /\ Checking({"TCP_CONN"})
    /\ \/ /\ tcp.st \in {"new", "connecting"}
          /\ tcp' = [tcp EXCEPT !.st = "connecting"]
          /\ Return(EAGAIN) /\ UNCHANGED so
       \/ /\ tcp.st = "open"
          /\ so' = [so EXCEPT !.state = "TCP_SEND"]
          /\ Stay /\ UNCHANGED tcp
       \/ /\ tcp.st = "refused"
          /\ Return("ECONNREFUSED") /\ UNCHANGED <<so, tcp>>
    /\ UNCHANGED <<udp, wire, faults, now>>

\* dns_so_tcp_send().  Each call of it starts from qsrc, already qout units
\* into the question, and indexes qsrc by qout again.
SoTcpSend ==
    /\ Checking({"TCP_SEND"})
    /\ \E n \in 1..(QLen - so.qout), again \in BOOLEAN :
          /\ n < QLen - so.qout => "short" \in faults
          /\ again <=> n < QLen - so.qout
          /\ tcp' = [tcp EXCEPT !.sent = @ \o [i \in 1..n |-> 2 * so.qout + i]]
          /\ so' = [so EXCEPT !.qout = @ + n,
                              !.state = IF again THEN @ ELSE "TCP_RECV"]
          /\ IF again THEN Return(EAGAIN) ELSE Stay
    /\ UNCHANGED <<udp, wire, faults, now>>

\* dns_so_tcp_recv(): first the length, then the message of that length.
SoTcpRecv ==
    /\ Checking({"TCP_RECV"})
    /\ \/ /\ tcp.in # <<>>
          /\ tcp' = [tcp EXCEPT !.in = Tail(@)]
          /\ so' = IF so.apos = 0
                   THEN [so EXCEPT !.apos = 1]
                   ELSE [so EXCEPT !.apos = 2, !.answer = Head(tcp.in), !.state = "TCP_DONE"]
          /\ Stay
       \/ /\ tcp.in = <<>> /\ ~tcp.eof
          /\ Return(EAGAIN) /\ UNCHANGED <<so, tcp>>
       \/ /\ tcp.in = <<>> /\ tcp.eof
          /\ Return("EUNKNOWN") /\ UNCHANGED <<so, tcp>>
    /\ UNCHANGED <<udp, wire, faults, now>>

SoTcpDone ==
    /\ Checking({"TCP_DONE"})
    /\ so' = CloseFd(so) /\ tcp' = Closed
    /\ Return(IF so.answer.runt THEN "EILLEGAL"
              ELSE IF Verify(so.answer) THEN OK ELSE "EUNKNOWN")
    /\ UNCHANGED <<udp, wire, faults, now>>

SoCheck == \/ SoUdpConn \/ SoUdpSend \/ SoUdpRecv \/ SoUdpDone
           \/ SoTcpInit \/ SoTcpConn \/ SoTcpSend \/ SoTcpRecv \/ SoTcpDone

\* dns_so_pollfd() and the kernel's RATCHET_YIELD_READ: the descriptor the
\* thread waits on, and when a wait for reading it is over.
PollFd ==
    CASE so.state \in {"UDP_CONN", "UDP_SEND", "UDP_RECV"} -> "udp"
      [] so.state \in {"TCP_CONN", "TCP_SEND", "TCP_RECV"} -> "tcp"
      [] OTHER -> "none"

Readable ==
    \/ PollFd = "udp" /\ (udp.icmp \/ udp.queue # <<>>)
    \/ PollFd = "tcp" /\ (tcp.st = "refused" \/ tcp.eof \/ tcp.in # <<>>)

-----------------------------------------------------------------------------
(* The network and the servers (external).                                 *)

Packet(d, a) == [qid |-> d.qid, qname |-> d.qname, qtype |-> d.qtype, from |-> d.remote,
                 an |-> a.an, ns |-> a.ns, ar |-> a.ar, aa |-> a.aa,
                 tc |-> FALSE, runt |-> FALSE]
EmptyAnswer == [an |-> <<>>, ns |-> <<>>, ar |-> <<>>, aa |-> FALSE]

UdpReplies(d) ==
    {Packet(d, a) : a \in Answers(d.remote, Question(d))}
        \cup (IF "trunc" \in faults
              THEN {[Packet(d, EmptyAnswer) EXCEPT !.tc = TRUE]} ELSE {})
        \cup (IF "runt" \in faults
              THEN {[Packet(d, EmptyAnswer) EXCEPT !.runt = TRUE]} ELSE {})

\* The kernel delivers a datagram only from the address the socket is
\* connected to when it arrives; one queued before stays queued.  A reply
\* comes at most twice.
NetReply ==
    /\ udp.open /\ Len(udp.queue) < MaxQueue
    /\ \E d \in wire : \E p \in UdpReplies(d) :
          /\ d.remote = udp.peer
          /\ udp' = [udp EXCEPT !.queue = Append(@, p)]
          /\ \/ wire' = wire \ {d}
             \/ "dup" \in faults /\ ~d.dup /\ wire' = (wire \ {d}) \cup {[d EXCEPT !.dup = TRUE]}
    /\ UNCHANGED <<so, tcp, faults, now, pc, err>>

NetRefuse ==
    /\ "icmp" \in faults /\ udp.open
    /\ \E d \in wire :
          /\ d.remote = udp.peer
          /\ udp' = [udp EXCEPT !.icmp = TRUE]
          /\ wire' = wire \ {d}
    /\ UNCHANGED <<so, tcp, faults, now, pc, err>>

NetTcpConnect ==
    /\ tcp.st = "connecting"
    /\ \E st \in {"open"} \cup (IF "tcp_refused" \in faults THEN {"refused"} ELSE {}) :
          tcp' = [tcp EXCEPT !.st = st]
    /\ UNCHANGED <<so, udp, wire, faults, now, pc, err>>

\* A server answers a question it received as it was written: first the
\* length arrives, then the message.
NetTcpReply ==
    /\ tcp.st = "open" /\ ~tcp.eof /\ tcp.replied < 2
    /\ so.state = "TCP_RECV" /\ tcp.sent = [i \in 1..QLen |-> i]
    /\ \E a \in Answers(so.remote, Question(so.query)) :
          tcp' = [tcp EXCEPT !.replied = @ + 1,
                             !.in = Append(@, IF tcp.replied = 0 THEN "length"
                                              ELSE Packet(Datagram, a))]
    /\ UNCHANGED <<so, udp, wire, faults, now, pc, err>>

NetTcpEof ==
    /\ "tcp_eof" \in faults /\ tcp.st = "open" /\ ~tcp.eof
    /\ tcp' = [tcp EXCEPT !.eof = TRUE]
    /\ UNCHANGED <<so, udp, wire, faults, now, pc, err>>

Net == NetReply \/ NetRefuse \/ NetTcpConnect \/ NetTcpReply \/ NetTcpEof
=============================================================================
