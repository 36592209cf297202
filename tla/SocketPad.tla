------------------------------ MODULE SocketPad ------------------------------
(***************************************************************************)
(* ratchet.socketpad: buffers on top of a socket object.  recv() gathers   *)
(* what a number of bytes or a delimiter asks for, send() collects data    *)
(* and passes it on in chunks.  The pad of object s is pad[s].             *)
(***************************************************************************)
EXTENDS Sockets

VARIABLES
    pad,       \* object -> [rbuf, sbuf, chunk, always]; chunk 0 is no chunk_size;
               \* twice records that chunk_size was set to one less than sbuf holds
    taken,     \* object -> everything recv() of its pad returned
    given      \* object -> everything send() of its pad was called with

pads == <<pad, taken, given>>
NewPad == [rbuf |-> <<>>, sbuf |-> <<>>, chunk |-> 0, always |-> FALSE, twice |-> FALSE]

\* Lua's string.sub: positions from 1, negative ones from the end.
LuaSub(d, i, j) ==
    LET from == IF i > 0 THEN i ELSE IF i = 0 \/ Len(d) + i + 1 < 1 THEN 1 ELSE Len(d) + i + 1
        to == IF j < 0 THEN Len(d) + j + 1 ELSE Min2(j, Len(d))
    IN SubSeq(d, from, to)

\* ratchet.socketpad:send_behavior(): "chunk_size" or "always_flush".
Behaving(p, how, n) ==
    IF how = "chunk_size"
    THEN [p EXCEPT !.chunk = n, !.twice = @ \/ (n > 0 /\ n = Len(p.sbuf) - 1)]
    ELSE [p EXCEPT !.always = TRUE]
SendBehavior(t) ==
    /\ Begins(t, "send_behavior")
    /\ pad' = [pad EXCEPT ![Call(t).s] = Behaving(@, Call(t).how, Call(t).n)]
    /\ Returns(t)
    /\ UNCHANGED <<conf, sock, sess, fdt, conn, backlog, timerfd, streams, taken, given>>

------------------------------------------------------------------------------
\* Where the first occurrence of str in buf ends; 0 if there is none.
FindEnd(buf, str) ==
    LET ends == {e \in Len(str) .. Len(buf) : SubSeq(buf, e - Len(str) + 1, e) = str}
    IN IF ends = {} THEN 0 ELSE CHOOSE e \in ends : \A f \in ends : e <= f

\* recv_until_bytes() and recv_until_string(): the bytes to hand out once the
\* buffer holds enough of them; 0 as long as it does not.
Through(c, buf) ==
    IF c.data = <<>> THEN IF Len(buf) < c.n THEN 0 ELSE c.n
    ELSE FindEnd(buf, c.data)
Take(s, buf, n) ==
    /\ taken' = [taken EXCEPT ![s] = @ \o SubSeq(buf, 1, n)]
    /\ pad' = [pad EXCEPT ![s].rbuf = SubSeq(buf, n + 1, Len(buf))]
    /\ UNCHANGED given

\* ratchet.socketpad:recv(): enough is buffered, or recv_once() adds what one
\* receive returns, and the loop looks again; the empty string ends it early.
Again(t) == [th[t] EXCEPT !.at = "idle", !.mode = "none", !.left = <<>>, !.waits = {}]
PadHas(t) ==
    LET s == Call(t).s
        n == Through(Call(t), pad[s].rbuf)
    IN /\ Begins(t, "pad_recv") /\ n > 0
       /\ Take(s, pad[s].rbuf, n)
       /\ Returns(t)
       /\ UNCHANGED <<conf, sock, sess, fdt, conn, backlog, timerfd, streams>>
RecvOnce(t) ==
    LET s == Call(t).s
        mode == RecvMode(t, s)
        v == RecvTry(s, Cap, mode)
        ended == v.what = "return" /\ v.data = <<>>
    IN /\ Retries(t, "pad_recv") \/ (Begins(t, "pad_recv") /\ Through(Call(t), pad[s].rbuf) = 0)
       /\ RecvStep(t, s, v, mode, IF ended THEN Finished(t) ELSE Again(t))
       /\ IF ended THEN Take(s, pad[s].rbuf, Len(pad[s].rbuf))
          ELSE /\ pad' = [pad EXCEPT ![s].rbuf = IF v.what = "return" THEN @ \o v.data ELSE @]
               /\ UNCHANGED <<taken, given>>


\* ratchet.socketpad:recv_remaining() and update_and_peek().
RecvRemaining(t) ==
    /\ Begins(t, "recv_remaining")
    /\ Take(Call(t).s, pad[Call(t).s].rbuf, Len(pad[Call(t).s].rbuf))
    /\ Returns(t)
    /\ UNCHANGED <<conf, sock, sess, fdt, conn, backlog, timerfd, streams>>
UpdateAndPeek(t) ==
    LET s == Call(t).s
        mode == RecvMode(t, s)
        v == RecvTry(s, Cap, mode)
    IN /\ Retries(t, "update_and_peek") \/ Begins(t, "update_and_peek")
       /\ RecvStep(t, s, v, mode, Finished(t))
       /\ pad' = [pad EXCEPT ![s].rbuf = IF v.what = "return" THEN @ \o v.data ELSE @]
       /\ UNCHANGED <<taken, given>>

------------------------------------------------------------------------------
\* ratchet.socketpad:flush(): the buffer is emptied first, then sent.  The
\* thread goes on in stage; rest is what update_send_buffer() has not buffered.
\* Mutant: the buffer is not emptied.
FlushKeeps(t, buf, stage, rest) ==
    LET s == Call(t).s
        me == [th[t] EXCEPT !.stage = stage, !.rest = rest]
    IN /\ SendStep(t, me, s, buf, ModeOf(s), IF stage = "none" THEN Finished(t) ELSE me)
       /\ UNCHANGED pad
Flush(t, buf, stage, rest) ==
    LET s == Call(t).s
        me == [th[t] EXCEPT !.stage = stage, !.rest = rest]
    IN /\ SendStep(t, me, s, buf, ModeOf(s), IF stage = "none" THEN Finished(t) ELSE me)
       /\ pad' = [pad EXCEPT ![s].sbuf = <<>>]

\* ratchet.socketpad:send() and update_send_buffer(): data that would exceed
\* chunk_size fills the buffer, is flushed, and so on with the rest.  The room is
\* negative if chunk_size was set below what is buffered: with a room of -1 both
\* string.sub() calls give all of the data.
PadSend(t) ==
    LET c == Call(t)
        p == pad[c.s]
        data == IF th[t].stage = "chunk" THEN th[t].rest ELSE c.data
        over == th[t].stage = "chunk" \/ (p.chunk > 0 /\ Len(p.sbuf) + Len(data) > p.chunk)
        extra == p.chunk - Len(p.sbuf)
    IN /\ Begins(t, "pad_send")
       /\ given' = IF th[t].stage = "chunk" THEN given
                   ELSE [given EXCEPT ![c.s] = @ \o c.data]
       /\ UNCHANGED taken
       /\ IF over /\ data # <<>>
          THEN Flush(t, p.sbuf \o LuaSub(data, 1, extra), "chunk", LuaSub(data, extra + 1, -1))
          ELSE IF c.more /\ ~p.always /\ (data # <<>> \/ th[t].stage = "chunk")
          THEN /\ pad' = [pad EXCEPT ![c.s].sbuf = @ \o data]
               /\ Returns(t)
               /\ UNCHANGED <<conf, sock, sess, fdt, conn, backlog, timerfd, streams>>
          ELSE Flush(t, p.sbuf \o data, "none", <<>>)

\* A flush that waited goes on; then the next chunk, or the call is over.
PadSendMore(t) ==
    /\ Retries(t, "pad_send")
    /\ SendStep(t, th[t], Call(t).s, th[t].left, th[t].mode,
                IF th[t].stage = "none" THEN Finished(t) ELSE Again(t))
    /\ UNCHANGED pads

PadInit ==
    /\ pad = [s \in Socks |-> NewPad]
    /\ taken = [s \in Socks |-> <<>>]
    /\ given = [s \in Socks |-> <<>>]
PadStep(t) ==
    \/ SendBehavior(t) \/ PadHas(t) \/ RecvOnce(t) \/ RecvRemaining(t) \/ UpdateAndPeek(t)
    \/ PadSend(t) \/ PadSendMore(t)
=============================================================================
