------------------------------- MODULE Sockets -------------------------------
(***************************************************************************)
(* ratchet.socket and ratchet.timerfd objects, used by several threads.    *)
(*                                                                         *)
(* Every operation that may have to wait has one shape: try the system     *)
(* call; if it would block, yield to the kernel for readability or         *)
(* writability of the OBJECT (whose descriptor and timeout the kernel      *)
(* reads then and there); when resumed, raise ETIMEDOUT if the wait timed  *)
(* out, else begin again from the object.  A thread runs alone between two *)
(* yields, so one attempt is one step.  Readiness (Fire) and the retry are *)
(* two steps: what made the descriptor ready may be gone when the thread   *)
(* gets its turn.                                                          *)
(*                                                                         *)
(* The threads' programs are sequences of calls, chosen with the           *)
(* configuration; a raised error is caught, and the thread goes on with    *)
(* its next call, or ends the thread.                                      *)
(***************************************************************************)
EXTENDS Tls

CONSTANTS
    Confs,     \* the set of programs: prog, the calls of each thread; after, the
               \* object each thread is given; and what Net says of them
    NThreads,
    NSocks     \* socket objects

\* A program is a sequence of calls for each thread, of objects s, or ss for
\* multi_recv().  Bytes are numbers, no recv() asks for nothing, and since the
\* model has one timer, one object is made for it.
Calls(p) == UNION {{p.prog[t][i] : i \in DOMAIN p.prog[t]} : t \in 1 .. NThreads}
ASSUME SocketsAssumption ==
    /\ NThreads \in Nat \ {0} /\ NSocks \in Nat \ {0}
    /\ \A p \in Confs :
          /\ \A t \in 1 .. NThreads : /\ Len(p.prog[t]) \in Nat
                                     /\ DOMAIN p.prog[t] = 1 .. Len(p.prog[t])
          /\ \A c \in Calls(p) :
                /\ IF c.op = "multi_recv" THEN c.ss \subseteq 1 .. NSocks ELSE c.s \in 1 .. NSocks
                /\ c.data \in Seq(Nat)
                /\ c.n \in Nat /\ (c.op \in {"recv", "multi_recv"} => c.n > 0)
          /\ \A c, d \in Calls(p) : c.op = "timerfd" /\ d.op = "timerfd" => c.s = d.s

VARIABLES
    conf,      \* the program, fixed
    sock,      \* object -> [fd, timed, end, plain]
    sess,      \* object -> the session encrypt() left in it
    th,        \* thread -> where it is
    put, got,  \* connection -> side -> bytes its objects sent, and received
    eof        \* ends whose recv() returned the empty string

descriptors == <<fdt, conn, backlog, ep, timerfd>>
streams == <<put, got, eof>>

Program == conf
Threads == 1 .. NThreads
Socks == 1 .. NSocks
NoSession == [none |-> TRUE]
NoSock == [fd |-> 0, timed |-> FALSE, end |-> NoFile]
SockObject(fd, file) == [fd |-> fd, timed |-> FALSE, end |-> file]
Bytes(data) == [i \in 1 .. Len(data) |-> Unit("byte", <<data[i]>>, 1)]
Plain(units) == [i \in 1 .. Len(units) |-> IF units[i][1] = "byte" THEN units[i][2][1] ELSE 0]

FreshThread ==
    [pc |-> 1, at |-> "idle",   \* idle, wait, active, late, ended
     mode |-> "none",               \* which function continues: plain, tls, multi
     left |-> <<>>,             \* bytes the call has still to send
     stage |-> "none", rest |-> <<>>,   \* progress of a socketpad's send
     waits |-> {}, timed |-> FALSE, fired |-> 0, err |-> "none"]

Call(t) == Program.prog[t][th[t].pc]
Op(t) == IF th[t].at = "ended" \/ th[t].pc > Len(Program.prog[t]) THEN "end" ELSE Call(t).op
\* A thread is attached once the object it is given exists.
Begins(t, op) ==
    /\ th[t].at = "idle" /\ Op(t) = op
    /\ Program.after[t] # 0 => sock[Program.after[t]].end # NoFile
Retries(t, op) == th[t].at = "active" /\ Op(t) = op

------------------------------------------------------------------------------
\* How a step of a call ends: it waits, returns, or raises an error.
Others(t) == UNION {th[u].waits : u \in Threads \ {t}}
Deleted(t) == Unwatch(ep, Others(t), th[t].waits)
Finished(t) == [FreshThread EXCEPT !.pc = th[t].pc + 1]

WaitOn(s, dir) == [s |-> s, fd |-> sock[s].fd, dir |-> dir]
Waits(t, me, ws, timed, mode, left) ==
    /\ th' = [th EXCEPT ![t] = [me EXCEPT !.at = "wait", !.waits = ws, !.timed = timed,
                                          !.mode = mode, !.left = left]]
    /\ ep' = Watch(Deleted(t), Others(t), ws)
BlockOn(t, me, s, dir, mode, left) == Waits(t, me, {WaitOn(s, dir)}, sock[s].timed, mode, left)
Returns(t) ==
    /\ th' = [th EXCEPT ![t] = Finished(t)]
    /\ ep' = Deleted(t)
Raises(t, error) ==
    /\ \E at \in {"idle", "ended"} :
          th' = [th EXCEPT ![t] = [Finished(t) EXCEPT !.at = at, !.err = error]]
    /\ ep' = Deleted(t)

\* The event loop: one of the thread's events fires, or its timer does.  A
\* thread that waits for several objects learns which one it was.
Fire(t) ==
    /\ th[t].at = "wait"
    /\ \E w \in th[t].waits :
          /\ w.fd # 0 /\ w.dir \in ep[w.fd] /\ Ready(fdt[w.fd], w.dir)
          /\ th' = [th EXCEPT ![t].at = "active", ![t].fired = w.s]
    /\ UNCHANGED <<conf, sock, sess, descriptors, streams>>
Late(t) ==
    /\ th[t].at = "wait" /\ th[t].timed
    /\ th' = [th EXCEPT ![t].at = "late"]
    /\ UNCHANGED <<conf, sock, sess, descriptors, streams>>

------------------------------------------------------------------------------
\* rsock_new(), rsock_new_pair(): descriptors are the lowest free ones.  NConns
\* bounds the connections a program makes.
New(t) ==
    /\ Begins(t, "new") /\ FreshConns # {}
    /\ LET file == <<FreshConn, "a">>
       IN IF FreeFds = {} THEN Raises(t, "EMFILE") /\ UNCHANGED <<fdt, sock>>
          ELSE \E f \in Lowest(FreeFds) :
                  /\ fdt' = [fdt EXCEPT ![f] = file]
                  /\ sock' = [sock EXCEPT ![Call(t).s] = SockObject(f, file)]
                  /\ Returns(t)
    /\ UNCHANGED <<conf, sess, conn, backlog, timerfd, streams>>

NewPair(t) ==
    /\ Begins(t, "new_pair") /\ FreshConns # {}
    /\ LET c == FreshConn
       IN IF \A f, g \in FreeFds : f = g
          THEN Raises(t, "EMFILE") /\ UNCHANGED <<fdt, conn, sock>>
          ELSE \E f \in Lowest(FreeFds) : \E g \in Lowest(FreeFds \ {f}) :
                  /\ fdt' = [fdt EXCEPT ![f] = <<c, "a">>, ![g] = <<c, "b">>]
                  /\ conn' = [conn EXCEPT ![c].st = "connected"]
                  /\ sock' = [sock EXCEPT ![Call(t).s] = SockObject(f, <<c, "a">>),
                                          ![Call(t).r] = SockObject(g, <<c, "b">>)]
                  /\ Returns(t)
    /\ UNCHANGED <<conf, sess, backlog, timerfd, streams>>

\* rsock_set_timeout(): the only timeouts told apart are none and some.
SetTimeout(t) ==
    /\ Begins(t, "set_timeout")
    /\ sock' = [sock EXCEPT ![Call(t).s].timed = TRUE]
    /\ Returns(t)
    /\ UNCHANGED <<conf, sess, fdt, conn, backlog, timerfd, streams>>

\* rsock_bind() and rsock_listen() at the one address of the model.
Listen(t) ==
    /\ Begins(t, "listen")
    /\ LET fd == sock[Call(t).s].fd
           c == fdt[fd][1]
       IN IF ~Stream(fd) THEN Raises(t, "EBADF") /\ UNCHANGED conn
          ELSE IF conn[c].st \notin {"new", "listen"} THEN Raises(t, "EINVAL") /\ UNCHANGED conn
          ELSE conn' = [conn EXCEPT ![c].st = "listen"] /\ Returns(t)
    /\ UNCHANGED <<conf, sock, sess, fdt, backlog, timerfd, streams>>

\* rsock_connect(): connect() is called again when the socket is writable; the
\* first such call after the connection was made returns 0.
Connect(t) ==
    /\ Begins(t, "connect") \/ Retries(t, "connect")
    /\ LET s == Call(t).s
           c == fdt[sock[s].fd][1]
       IN IF ~Stream(sock[s].fd) THEN Raises(t, "EBADF") /\ UNCHANGED conn
          ELSE CASE conn[c].st \in {"new", "syn"} ->
                      conn' = [conn EXCEPT ![c].st = "syn"] /\ BlockOn(t, th[t], s, "w", "plain", <<>>)
                 [] conn[c].st = "up" ->
                      conn' = [conn EXCEPT ![c].st = "connected"] /\ Returns(t)
                 [] conn[c].st = "refused" ->
                      conn' = [conn EXCEPT ![c].st = "new"] /\ Raises(t, "ECONNREFUSED")
                 [] OTHER -> Raises(t, "EISCONN") /\ UNCHANGED conn
    /\ UNCHANGED <<conf, sock, sess, fdt, backlog, timerfd, streams>>

\* rsock_accept() and rsock_from_fd(); accept() takes a descriptor before it looks
\* for a connection.
Accept(t) ==
    /\ Begins(t, "accept") \/ Retries(t, "accept")
    /\ LET s == Call(t).s
           error == IF ~Stream(sock[s].fd) THEN "EBADF"
                    ELSE IF FreeFds = {} THEN "EMFILE"
                    ELSE IF conn[fdt[sock[s].fd][1]].st # "listen" THEN "EINVAL" ELSE "none"
       IN IF error # "none"
          THEN Raises(t, error) /\ UNCHANGED <<sock, fdt, backlog>>
          ELSE IF backlog = <<>>
          THEN BlockOn(t, th[t], s, "r", "plain", <<>>) /\ UNCHANGED <<sock, fdt, backlog>>
          ELSE \E f \in Lowest(FreeFds) :
                  /\ fdt' = [fdt EXCEPT ![f] = <<Head(backlog), "b">>]
                  /\ sock' = [sock EXCEPT ![Call(t).r] = SockObject(f, <<Head(backlog), "b">>)]
                  /\ backlog' = Tail(backlog)
                  /\ Returns(t)
    /\ UNCHANGED <<conf, sess, conn, timerfd, streams>>

\* rsock_shutdown() of one direction or both.
Shutdown(t) ==
    /\ Begins(t, "shutdown")
    /\ LET fd == sock[Call(t).s].fd
           c == fdt[fd][1]
           side == {fdt[fd][2]}
           how == Call(t).how
       IN IF ~Stream(fd) THEN Raises(t, "EBADF") /\ UNCHANGED conn
          ELSE /\ conn' = [conn EXCEPT ![c].noread = IF how # "write" THEN @ \cup side ELSE @,
                                       ![c].nowrite = IF how # "read" THEN @ \cup side ELSE @]
               /\ Returns(t)
    /\ UNCHANGED <<conf, sock, sess, fdt, backlog, timerfd, streams>>

\* close() of a descriptor; epoll forgets the file.
CloseFd(fd, watched) ==
    /\ conn' = ClosedConns(fdt[fd])
    /\ backlog' = IF fdt[fd][1] \in Conns /\ conn[fdt[fd][1]].st = "listen" THEN <<>> ELSE backlog
    /\ fdt' = [fdt EXCEPT ![fd] = NoFile]
    /\ ep' = [watched EXCEPT ![fd] = {}]

\* Mutant: the object keeps the number it closed.
CloseKeepsFd(t) ==
    /\ Begins(t, "close")
    /\ th' = [th EXCEPT ![t] = Finished(t)]
    /\ LET s == Call(t).s
       IN IF sock[s].fd = 0 THEN UNCHANGED <<fdt, conn, backlog, ep>>
          ELSE CloseFd(sock[s].fd, ep)
    /\ UNCHANGED <<conf, sock, sess, timerfd, streams>>
\* rsock_close() and rtfd_close(): the object keeps -1, and its session.
Close(t) ==
    /\ Begins(t, "close")
    /\ th' = [th EXCEPT ![t] = Finished(t)]
    /\ LET s == Call(t).s
       IN IF sock[s].fd = 0 THEN UNCHANGED <<sock, fdt, conn, backlog, ep>>
          ELSE CloseFd(sock[s].fd, ep) /\ sock' = [sock EXCEPT ![s].fd = 0]
    /\ UNCHANGED <<conf, sess, timerfd, streams>>

\* rsock_gc(), rtfd_gc(): an object no thread can name any more is collected,
\* and its session with it.
Named(t) == UNION {{c.s, c.r} \cup c.ss : c \in {Program.prog[t][i] :
                i \in {j \in DOMAIN Program.prog[t] : th[t].at # "ended" /\ j >= th[t].pc}}}
Gc(s) ==
    /\ sock[s].fd # 0 /\ \A t \in Threads : s \notin Named(t)
    /\ CloseFd(sock[s].fd, ep)
    /\ sock' = [sock EXCEPT ![s].fd = 0]
    /\ sess' = [sess EXCEPT ![s] = NoSession]
    /\ UNCHANGED <<conf, th, timerfd, streams>>

------------------------------------------------------------------------------
\* The bytes a thread was given by recv() of an object, and the bytes taken
\* from one by send().
Received(s, data) ==
    /\ got' = [got EXCEPT ![sock[s].end[1]][sock[s].end[2]] = @ \o data]
    /\ eof' = IF data = <<>> THEN eof \cup {sock[s].end} ELSE eof
    /\ UNCHANGED put
Sent(s, data) ==
    /\ put' = [put EXCEPT ![sock[s].end[1]][sock[s].end[2]] = @ \o data]
    /\ UNCHANGED <<got, eof>>

\* What the verdict of an attempt does to the thread, whose state is me while
\* it waits and done once the function returns.
Ends(t, me, s, v, mode, left, done) ==
    /\ conn' = v.conn /\ sess' = [sess EXCEPT ![s] = v.x]
    /\ CASE v.what = "block" -> BlockOn(t, me, s, v.value, mode, left)
         [] v.what = "raise" -> Raises(t, v.value)
         [] OTHER -> th' = [th EXCEPT ![t] = done] /\ ep' = Deleted(t)
    /\ UNCHANGED <<conf, sock, fdt, backlog, timerfd>>

\* rsock_send() in a loop that goes on with what was not sent, as
\* socketpad:flush() has it: after a short send the next one would block.
\* The verdict's data is what the system took.
RawSend(s, data) ==
    LET w == SysSend(conn, sock[s].fd, Bytes(data))
        v(what, value) == [what |-> what, value |-> value, data |-> SubSeq(data, 1, w.n),
                           x |-> sess[s], conn |-> w.conn]
    IN CASE w.res = "ok" /\ w.n = Len(data) -> v("return", "ok")
         [] w.res = "EAGAIN" \/ (w.res = "ok" /\ w.n < Len(data)) -> v("block", "w")
         [] OTHER -> v("raise", w.res)

\* rsock_try_encrypted_send() chooses when the call begins; the function that
\* yielded is the one that is resumed.  A session takes the data as a whole
\* when it begins a record.
ModeOf(s) == IF sess[s] = NoSession THEN "plain" ELSE "tls"
SendTry(s, data, mode) ==
    IF mode = "plain" THEN RawSend(s, data)
    ELSE LET v == SessionWrite(sess[s], data)
         IN [v EXCEPT !.data = IF v.what # "raise" /\ sess[s].out = <<>> THEN data ELSE <<>>]
\* Mutant: the retry after a short send begins with all of the data.
SendStepWhole(t, me, s, data, mode, done) ==
    LET v == SendTry(s, data, mode)
    IN Ends(t, me, s, v, mode, data, done) /\ Sent(s, v.data)
SendStep(t, me, s, data, mode, done) ==
    LET v == SendTry(s, data, mode)
        left == IF mode = "plain" THEN SubSeq(data, Len(v.data) + 1, Len(data)) ELSE data
    IN Ends(t, me, s, v, mode, left, done) /\ Sent(s, v.data)
Send(t) ==
    \/ Begins(t, "send") /\ SendStep(t, th[t], Call(t).s, Call(t).data, ModeOf(Call(t).s), Finished(t))
    \/ Retries(t, "send") /\ SendStep(t, th[t], Call(t).s, th[t].left, th[t].mode, Finished(t))

\* rsock_recv(), rssl_session_read() and rsock_try_encrypted_recv().
RawRecv(s, n) ==
    LET r == SysRecv(conn, sock[s].fd, n)
        v(what, value) == [what |-> what, value |-> value, data |-> Plain(r.data),
                           x |-> sess[s], conn |-> r.conn]
    IN CASE r.res = "ok" -> v("return", "ok")
         [] r.res = "EAGAIN" -> v("block", "r")
         [] OTHER -> v("raise", r.res)
RecvTry(s, n, mode) == IF mode = "plain" THEN RawRecv(s, n) ELSE SessionRead(sess[s], n)
RecvStep(t, s, v, mode, done) ==
    /\ Ends(t, th[t], s, v, mode, <<>>, done)
    /\ IF v.what = "return" THEN Received(s, v.data) ELSE UNCHANGED streams
RecvMode(t, s) == IF th[t].mode \in {"plain", "tls"} THEN th[t].mode ELSE ModeOf(s)
Recv(t) ==
    /\ Begins(t, "recv") \/ Retries(t, "recv")
    /\ LET s == Call(t).s
           mode == RecvMode(t, s)
       IN RecvStep(t, s, RecvTry(s, Call(t).n, mode), mode, Finished(t))

\* rsock_multi_recv(): it waits first, then receives from the object that fired.
MultiRecv(t) ==
    \/ /\ Begins(t, "multi_recv")
       /\ Waits(t, th[t], {WaitOn(s, "r") : s \in Call(t).ss}, TRUE, "multi", <<>>)
       /\ UNCHANGED <<conf, sock, sess, fdt, conn, backlog, timerfd, streams>>
    \/ /\ Retries(t, "multi_recv")
       /\ LET s == th[t].fired
              mode == RecvMode(t, s)
          IN RecvStep(t, s, RecvTry(s, Call(t).n, mode), mode, Finished(t))

\* Every operation looks at how its wait ended before anything else.
\* rsock_multi_recv() returns nil when its own wait timed out.
TimedOut(t) ==
    /\ th[t].at = "late" /\ Op(t) \notin {"zmq_recv", "zmq_send"}
    /\ IF Op(t) = "multi_recv" /\ th[t].mode = "multi" THEN Returns(t) ELSE Raises(t, "ETIMEDOUT")
    /\ UNCHANGED <<conf, sock, sess, fdt, conn, backlog, timerfd, streams>>

\* rsock_encrypt() and rssl_ctx_create_session(): a fresh session over the
\* object's descriptor replaces the one there was.
Encrypt(t) ==
    /\ Begins(t, "encrypt")
    /\ sess' = [sess EXCEPT ![Call(t).s] = Session(sock[Call(t).s].fd)]
    /\ Returns(t)
    /\ UNCHANGED <<conf, sock, fdt, conn, backlog, timerfd, streams>>

\* rssl_session_connect(), _accept() and _shutdown().
Handshake(t) ==
    /\ Begins(t, "client_handshake") \/ Retries(t, "client_handshake")
    /\ Ends(t, th[t], Call(t).s, SessionConnect(sess[Call(t).s]), "tls", <<>>, Finished(t))
    /\ UNCHANGED streams
ServerHandshake(t) ==
    /\ Begins(t, "server_handshake") \/ Retries(t, "server_handshake")
    /\ Ends(t, th[t], Call(t).s, SessionAccept(sess[Call(t).s]), "tls", <<>>, Finished(t))
    /\ UNCHANGED streams
TlsShutdown(t) ==
    /\ Begins(t, "tls_shutdown") \/ Retries(t, "tls_shutdown")
    /\ Ends(t, th[t], Call(t).s, SessionShutdown(sess[Call(t).s]), "tls", <<>>, Finished(t))
    /\ UNCHANGED streams

\* rtfd_new(), rtfd_settime(), and rtfd_read(), which waits without timeout.
TimerNew(t) ==
    /\ Begins(t, "timerfd")
    /\ IF FreeFds = {} THEN Raises(t, "EMFILE") /\ UNCHANGED <<fdt, sock>>
       ELSE \E f \in Lowest(FreeFds) :
               /\ fdt' = [fdt EXCEPT ![f] = Timer]
               /\ sock' = [sock EXCEPT ![Call(t).s] = SockObject(f, Timer)]
               /\ Returns(t)
    /\ UNCHANGED <<conf, sess, conn, backlog, timerfd, streams>>
TimerSettime(t) ==
    /\ Begins(t, "settime")
    /\ IF sock[Call(t).s].fd = 0 THEN Raises(t, "EBADF") /\ UNCHANGED timerfd
       ELSE timerfd' = [armed |-> TRUE, fires |-> 0] /\ Returns(t)
    /\ UNCHANGED <<conf, sock, sess, fdt, conn, backlog, streams>>
TimerRead(t) ==
    /\ Begins(t, "timer_read") \/ Retries(t, "timer_read")
    /\ LET s == Call(t).s
           open == sock[s].fd # 0
       IN IF ~open THEN Raises(t, "EBADF") /\ UNCHANGED timerfd
          ELSE IF timerfd.fires = 0 THEN BlockOn(t, th[t], s, "r", "plain", <<>>) /\ UNCHANGED timerfd
          ELSE timerfd' = [timerfd EXCEPT !.fires = 0] /\ Returns(t)
    /\ UNCHANGED <<conf, sock, sess, fdt, conn, backlog, streams>>

SocketsInit ==
    /\ conf \in Confs
    /\ DescriptorsInit
    /\ sock = [s \in Socks |-> NoSock]
    /\ sess = [s \in Socks |-> NoSession]
    /\ th = [t \in Threads |-> FreshThread]
    /\ put = [c \in Conns |-> [side \in Sides |-> <<>>]]
    /\ got = put
    /\ eof = {}

SocketStep(t) ==
    \/ New(t) \/ NewPair(t) \/ SetTimeout(t) \/ Listen(t) \/ Connect(t) \/ Accept(t)
    \/ Shutdown(t) \/ Close(t) \/ Send(t) \/ Recv(t) \/ MultiRecv(t) \/ TimedOut(t)
    \/ Encrypt(t) \/ Handshake(t) \/ ServerHandshake(t) \/ TlsShutdown(t)
    \/ TimerNew(t) \/ TimerSettime(t) \/ TimerRead(t)

System ==
    \/ Expire /\ UNCHANGED <<conf, sock, sess, th, streams>>
    \/ \E c \in Conns : (Establish(c) \/ Refuse(c)) /\ UNCHANGED <<conf, sock, sess, th, streams>>
=============================================================================
