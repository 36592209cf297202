--------------------------------- MODULE Tls ---------------------------------
(***************************************************************************)
(* The TLS sessions of ssl.c.                                              *)
(*                                                                         *)
(* OpenSSL is modelled from how ssl.c uses it.  A session reads and writes *)
(* the descriptor NUMBER that rsock_encrypt() put into its BIO.  On the    *)
(* wire a handshake is a client's hello and a server's answer, a record of *)
(* n bytes takes n units and can only be read as a whole, and the end of   *)
(* the session is a close notification.  What an SSL_ function of the      *)
(* library yields is a record: ret is the SSL_get_error() of the call,     *)
(* errno says more for SYSCALL ("EOF" when the library returned 0), data   *)
(* is what was read, x and conn are the session and the connections after. *)
(*                                                                         *)
(* The second half is ssl.c: what a session method makes of that outcome.  *)
(***************************************************************************)
EXTENDS Descriptors

Unit(kind, data, i) == <<kind, data, i>>
Record(data) == [i \in 1 .. Len(data) |-> Unit("rec", data, i)]
ClientHello == <<Unit("ch", <<>>, 1)>>
ServerHello == <<Unit("sh", <<>>, 1)>>
CloseNotify == <<Unit("cn", <<>>, 1)>>

\* SSL_new() and SSL_set_bio() over BIO_new_socket(fd, BIO_NOCLOSE).
Session(fd) ==
    [fd |-> fd,           \* the number in the BIO
     st |-> "new",        \* new, hello, up
     pend |-> <<>>,       \* decrypted bytes nobody read yet
     part |-> 0,          \* units read of an incomplete record
     out |-> <<>>,        \* units of a record or alert still to be written
     for |-> <<>>,        \* the bytes SSL_write() was called with for them
     sent |-> FALSE, got |-> FALSE]   \* close notifications

Outcome(ret, errno, data, x, cn) ==
    [ret |-> ret, errno |-> errno, data |-> data, x |-> x, conn |-> cn]

\* Write what is pending to the BIO.
BioFlush(x, cn) ==
    LET w == SysSend(cn, x.fd, x.out)
        rest == SubSeq(x.out, w.n + 1, Len(x.out))
    IN CASE x.out = <<>> -> Outcome("NONE", "none", <<>>, x, cn)
         [] x.out # <<>> /\ w.res = "ok" ->
              Outcome(IF rest = <<>> THEN "NONE" ELSE "WANT_WRITE", "none", <<>>,
                      [x EXCEPT !.out = rest], w.conn)
         [] x.out # <<>> /\ w.res = "EAGAIN" -> Outcome("WANT_WRITE", "none", <<>>, x, cn)
         [] OTHER -> Outcome("SYSCALL", w.res, <<>>, x, cn)

\* Read one unit from the BIO that must be of some kind; new is the session then.
BioExpect(kind, x, new, cn) ==
    LET r == SysRecv(cn, x.fd, 1)
    IN CASE r.res = "EAGAIN" -> Outcome("WANT_READ", "none", <<>>, x, cn)
         [] r.res = "ok" /\ r.data = <<>> -> Outcome("SYSCALL", "EOF", <<>>, x, cn)
         [] r.res = "ok" /\ r.data # <<>> ->
              IF r.data[1][1] = kind THEN Outcome("NONE", "none", <<>>, new, r.conn)
              ELSE Outcome("SSL", "none", <<>>, x, r.conn)
         [] OTHER -> Outcome("SYSCALL", r.res, <<>>, x, r.conn)

SSL_connect(x, cn) ==
    LET f == BioFlush(IF x.st = "new" THEN [x EXCEPT !.st = "hello", !.out = ClientHello] ELSE x, cn)
    IN IF f.ret # "NONE" \/ f.x.st = "up" THEN f
       ELSE BioExpect("sh", f.x, [f.x EXCEPT !.st = "up"], f.conn)

SSL_accept(x, cn) ==
    LET r == BioExpect("ch", x, [x EXCEPT !.st = "up", !.out = ServerHello], cn)
    IN IF x.st = "up" THEN BioFlush(x, cn)
       ELSE IF r.ret # "NONE" THEN r ELSE BioFlush(r.x, r.conn)

\* SSL_read() looks at a record's first unit to know its length.
SSL_read(x, cn, n) ==
    LET first == SysRecv(cn, x.fd, 1)
        data == first.data[1][2]
        r == SysRecv(cn, x.fd, Len(data) - x.part)
        expected == SubSeq(Record(data), x.part + 1, x.part + Len(r.data))
        all == IF x.pend # <<>> THEN x.pend ELSE data
        k == Min2(n, Len(all))
        deliver(c) == Outcome("NONE", "none", SubSeq(all, 1, k),
                              [x EXCEPT !.part = 0, !.pend = SubSeq(all, k + 1, Len(all))], c)
    IN CASE x.pend # <<>> -> deliver(cn)
         [] x.pend = <<>> /\ x.got -> Outcome("ZERO_RETURN", "none", <<>>, x, cn)
         [] x.pend = <<>> /\ ~x.got /\ first.res = "ok" /\ first.data # <<>> ->
              CASE first.data[1][1] = "cn" ->
                     Outcome("ZERO_RETURN", "none", <<>>, [x EXCEPT !.got = TRUE], first.conn)
                [] first.data[1][1] = "rec" /\ r.data = expected ->
                     IF x.part + Len(r.data) = Len(data) THEN deliver(r.conn)
                     ELSE Outcome("WANT_READ", "none", <<>>, [x EXCEPT !.part = @ + Len(r.data)], r.conn)
                [] OTHER -> Outcome("SSL", "none", <<>>, x, first.conn)
         [] OTHER -> BioExpect("none", x, x, cn)

\* SSL_write() must be retried with the bytes it was begun with.
SSL_write(x, cn, data) ==
    IF x.sent \/ x.st # "up" \/ (x.out # <<>> /\ x.for # data)
    THEN Outcome("SSL", "none", <<>>, x, cn)
    ELSE BioFlush(IF x.out = <<>> THEN [x EXCEPT !.out = Record(data), !.for = data] ELSE x, cn)

\* The first SSL_shutdown() sends the notification and returns 0 (ret "MORE")
\* unless the peer's has arrived; the next one waits for it.
SSL_shutdown(x, cn) ==
    LET begun == [x EXCEPT !.sent = TRUE, !.out = CloseNotify, !.for = <<>>]
        f == BioFlush(IF x.sent THEN x ELSE begun, cn)
    IN IF x.out # <<>> /\ x.for # <<>> THEN Outcome("SSL", "none", <<>>, x, cn)
       ELSE IF f.ret # "NONE" THEN f
       ELSE IF f.x.got THEN f
       ELSE IF ~x.sent THEN [f EXCEPT !.ret = "MORE"]
       ELSE IF f.x.pend # <<>> THEN Outcome("SSL", "none", <<>>, f.x, f.conn)
       ELSE BioExpect("cn", f.x, [f.x EXCEPT !.got = TRUE], f.conn)

------------------------------------------------------------------------------
\* handle_ssl_error(): the error a method raises.
HandleSslError(o) ==
    CASE o.ret = "SYSCALL" /\ o.errno = "EOF" -> "SSLEOF"
      [] o.ret = "SYSCALL" /\ o.errno # "EOF" -> o.errno
      [] OTHER -> "SSLERROR"

\* The switch every session method ends in, as a verdict: "return" with a
\* value, "block" on a direction of the engine, or "raise" an error.
Verdict(what, value, o) == [what |-> what, value |-> value, data |-> o.data, x |-> o.x, conn |-> o.conn]
\* Mutants: a connection that is cut off shows as a clean end; a session that
\* wants to write waits for readability.
SessionSwitchEof(o) ==
    CASE o.ret = "NONE" -> Verdict("return", "ok", o)
      [] o.ret = "ZERO_RETURN" \/ (o.ret = "SYSCALL" /\ o.errno = "EOF") -> Verdict("return", "eof", o)
      [] o.ret = "WANT_READ" -> Verdict("block", "r", o)
      [] o.ret = "WANT_WRITE" -> Verdict("block", "w", o)
      [] OTHER -> Verdict("raise", HandleSslError(o), o)
SessionSwitchReads(o) ==
    CASE o.ret = "NONE" -> Verdict("return", "ok", o)
      [] o.ret = "ZERO_RETURN" -> Verdict("return", "eof", o)
      [] o.ret \in {"WANT_READ", "WANT_WRITE"} -> Verdict("block", "r", o)
      [] OTHER -> Verdict("raise", HandleSslError(o), o)
SessionSwitch(o) ==
    CASE o.ret = "NONE" -> Verdict("return", "ok", o)
      [] o.ret = "ZERO_RETURN" -> Verdict("return", "eof", o)
      [] o.ret = "WANT_READ" -> Verdict("block", "r", o)
      [] o.ret = "WANT_WRITE" -> Verdict("block", "w", o)
      [] OTHER -> Verdict("raise", HandleSslError(o), o)

SessionConnect(x) == SessionSwitch(SSL_connect(x, conn))
SessionAccept(x) == SessionSwitch(SSL_accept(x, conn))
SessionRead(x, n) == SessionSwitch(SSL_read(x, conn, n))
SessionWrite(x, data) == SessionSwitch(SSL_write(x, conn, data))

\* rssl_session_shutdown() calls SSL_shutdown() again when it returned 0.  A
\* peer that is gone is no error.  At an end of file the second call returns
\* -1, with whatever errno holds.
SessionShutdown(x) ==
    LET first == SSL_shutdown(x, conn)
        o == IF first.ret = "MORE" THEN SSL_shutdown(first.x, first.conn) ELSE first
    IN IF o.ret = "SYSCALL" /\ o.errno \in {"EPIPE", "EBADF"}
       THEN Verdict("return", "false", o)
       ELSE SessionSwitch(IF o.errno = "EOF" THEN [o EXCEPT !.ret = "SSL"] ELSE o)
=============================================================================
