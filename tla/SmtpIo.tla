------------------------------- MODULE SmtpIo -------------------------------
(***************************************************************************)
(* smtp_io.lua, data_sender.lua and data_reader.lua: how an SMTP client    *)
(* takes replies out of the stream, and how message data is made           *)
(* transparent, sent, and read back by the server.                         *)
(*                                                                         *)
(* A string is a sequence of characters.  In replies the three digits of a *)
(* code are one character, and so is a line's end; in message data "x" is  *)
(* any character without a meaning.                                        *)
(***************************************************************************)
EXTENDS Integers, Sequences

CONSTANTS
    ReplySets,     \* sequences of replies [code, lines] a server may send
    Codes,         \* the characters that are reply codes
    Messages,      \* the messages send_data() is called with
    IterSizes,     \* iter_size of the client
    MaxSizes,      \* the SIZE limits of the server
    MaxSent        \* bound on what the sender is followed up to

VARIABLES
    replies,       \* the replies of the server, in order
    stream,        \* what of them is still on its way
    recv_buffer,   \* recv_buffer of the smtp_io that reads
    reading,       \* [code, lines] of the recv_reply() under way; <<>> if none
    results,       \* what the calls of recv_reply() returned
    cuts,          \* the positions in the replies where a segment ended
    message,       \* full_message of the sender
    iter_size,
    sender,        \* its position i, last_part, and done
    sent,          \* the pieces buffered so far
    reader         \* the data_reader, and what it returned

replyVars == <<replies, stream, reading, results, cuts>>
dataVars == <<message, iter_size, sender, sent, reader>>
smtpIoVars == <<replyVars, dataVars, recv_buffer>>

EOL == "\n"
Sub(s, i) == SubSeq(s, i, Len(s))
\* The position after the first end of line at or after i; 0 if there is none.
LineEnd(s, i) ==
    LET ends == {j \in i .. Len(s) : s[j] = EOL}
    IN IF ends = {} THEN 0 ELSE (CHOOSE j \in ends : \A k \in ends : j <= k) + 1

------------------------------------------------------------------------------
\* send_reply(): one line per line of the message, "-" after every code but the last.
ReplyText(r) ==
    LET text[i \in 0 .. Len(r.lines)] ==
          IF i = 0 THEN <<>>
          ELSE text[i - 1] \o <<r.code, IF i < Len(r.lines) THEN "-" ELSE " ">> \o r.lines[i] \o <<EOL>>
    IN text[Len(r.lines)]
Wire(rs) ==
    LET text[i \in 0 .. Len(rs)] == IF i = 0 THEN <<>> ELSE text[i - 1] \o ReplyText(rs[i])
    IN text[Len(rs)]

\* Where the reply pattern matches a line of input at i: the position after it.
MatchLine(input, code, i) ==
    IF i + 1 <= Len(input) /\ input[i] = code /\ input[i + 1] \in {" ", "-"}
    THEN LineEnd(input, i + 2) ELSE 0

\* The inner loop of recv_reply() from start: lines up to one that is not
\* followed by another.  recv_buffer is trimmed by end_i, a position of input,
\* for every line.
RECURSIVE TakeLines(_, _, _, _, _)
TakeLines(input, buf, code, lines, start) ==
    LET end == MatchLine(input, code, start)
        line == SubSeq(input, start + 2, end - 2)
        bad == LineEnd(input, 1)
    IN CASE end # 0 /\ input[start + 1] # "-" ->
              [what |-> "reply", buf |-> Sub(buf, end), lines |-> Append(lines, line)]
         [] end # 0 /\ input[start + 1] = "-" ->
              TakeLines(input, Sub(buf, end), code, Append(lines, line), end)
         [] end = 0 /\ bad # 0 ->
              [what |-> "bad", buf |-> Sub(buf, bad), lines |-> <<SubSeq(input, 1, bad - 2)>>]
         [] OTHER -> [what |-> "more", buf |-> buf, lines |-> lines]

\* A turn of the outer loop: the code is taken from the first input that has one.
Turn(input, at) ==
    LET code == IF at.code # "" THEN at.code
                ELSE IF input # <<>> /\ input[1] \in Codes THEN input[1] ELSE ""
        bad == LineEnd(input, 1)
        out == IF code # "" THEN TakeLines(input, input, code, at.lines, 1)
               ELSE IF bad # 0
               THEN [what |-> "bad", buf |-> Sub(input, bad), lines |-> <<SubSeq(input, 1, bad - 2)>>]
               ELSE [what |-> "more", buf |-> input, lines |-> at.lines]
    IN [what |-> out.what, buf |-> out.buf, code |-> code, lines |-> out.lines]
\* Mutant: what follows the reply is dropped.
TakeAlone(out) ==
    /\ recv_buffer' = IF out.what = "more" THEN out.buf ELSE <<>>
    /\ reading' = IF out.what = "more" THEN <<[code |-> out.code, lines |-> out.lines]>> ELSE <<>>
    /\ results' = IF out.what = "more" THEN results
                  ELSE Append(results, [code |-> out.code, lines |-> out.lines])
Take(out) ==
    /\ recv_buffer' = out.buf
    /\ reading' = IF out.what = "more" THEN <<[code |-> out.code, lines |-> out.lines]>> ELSE <<>>
    /\ results' = CASE out.what = "reply" -> Append(results, [code |-> out.code, lines |-> out.lines])
                    [] out.what = "bad" -> Append(results, [code |-> "nil", lines |-> out.lines])
                    [] OTHER -> results

\* recv_reply() is called for the next reply; it goes on when a segment arrives.
RecvReply ==
    /\ reading = <<>> /\ Len(results) < Len(replies)
    /\ Take(Turn(recv_buffer, [code |-> "", lines |-> <<>>]))
    /\ UNCHANGED <<replies, stream, cuts>>
BufferedRecv(n) ==
    /\ reading # <<>> /\ n \in 1 .. Len(stream)
    /\ stream' = Sub(stream, n + 1)
    /\ cuts' = cuts \cup {Len(Wire(replies)) - Len(stream) + n}
    /\ Take(Turn(recv_buffer \o SubSeq(stream, 1, n), reading[1]))
    /\ UNCHANGED replies

RepliesInit ==
    /\ replies \in ReplySets /\ stream = Wire(replies)
    /\ reading = <<>> /\ results = <<>> /\ cuts = {} /\ recv_buffer = <<>>
RepliesNext == (RecvReply \/ \E n \in 1 .. Len(stream) : BufferedRecv(n)) /\ UNCHANGED dataVars

------------------------------------------------------------------------------
CRLF == <<"\r", EOL>>
\* Lua's string.sub.
LuaSub(s, i, j) ==
    LET from == IF i > 0 THEN i ELSE IF i = 0 \/ Len(s) + i < 0 THEN 1 ELSE Len(s) + i + 1
        to == IF j < 0 THEN Len(s) + j + 1 ELSE IF j < Len(s) THEN j ELSE Len(s)
    IN SubSeq(s, from, to)

\* The three gsub() of iterator_func().
Transparent(s) ==
    LET t == SelectSeq(s, LAMBDA ch : ch # "\r")
        out[i \in 0 .. Len(t)] ==
          IF i = 0 THEN <<>>
          ELSE out[i - 1] \o (CASE t[i] = EOL -> CRLF
                                [] t[i] = "." /\ i > 1 /\ t[i - 1] = EOL -> <<".", ".">>
                                [] OTHER -> <<t[i]>>)
    IN out[Len(t)]

\* iterator_func(), called by data_sender:send() until it returns nothing.
IteratorFunc ==
    LET last == sender.last_part
        piece == LuaSub(message, sender.i, sender.i + iter_size - 1)
        grown == Transparent(last \o piece)
        delta == 2 * iter_size - (Len(grown) - Len(last))
        out == LuaSub(grown, 1 + Len(last), iter_size + Len(last))
    IN /\ ~sender.done /\ Len(sent) < MaxSent
       /\ IF piece = <<>>
          THEN /\ sender' = [sender EXCEPT !.done = TRUE]
               /\ sent' = sent \o (IF last # <<>> /\ last # CRLF THEN CRLF ELSE <<>>) \o <<".">> \o CRLF
          ELSE /\ sender' = [i |-> sender.i + delta, last_part |-> LuaSub(out, -2, -1), done |-> FALSE]
               /\ sent' = sent \o out
       /\ UNCHANGED <<message, iter_size, reader, recv_buffer>>

------------------------------------------------------------------------------
\* strip_EOD_endline(): the line before the marker loses its end.
WithoutEnd(line) ==
    LET n == Len(line)
    IN IF n > 1 /\ line[n - 1] = "\r" THEN SubSeq(line, 1, n - 2) ELSE SubSeq(line, 1, n - 1)

\* Mutant: the period that was added is left in the line.
HandleFinishedLineKeeps(r) ==
    LET i == Len(r.lines)
    IN IF r.eod = 0 /\ r.lines[i] \in {<<".", EOL>>, <<".">> \o CRLF}
       THEN [r EXCEPT !.eod = i, !.lines = Append(@, <<>>)]
       ELSE [r EXCEPT !.lines = Append(@, <<>>)]
\* handle_finished_line(): the last of lines is complete, a new one begins.
HandleFinishedLine(r) ==
    LET i == Len(r.lines)
        line == r.lines[i]
        moved == [r EXCEPT !.lines = Append(@, <<>>)]
    IN CASE r.eod # 0 -> moved
         [] r.eod = 0 /\ line \in {<<".", EOL>>, <<".">> \o CRLF} ->
              [moved EXCEPT !.eod = i,
                            !.lines = IF i > 1 THEN [@ EXCEPT ![i - 1] = WithoutEnd(@)] ELSE @]
         [] r.eod = 0 /\ line[1] = "." /\ line \notin {<<".", EOL>>, <<".">> \o CRLF} ->
              [moved EXCEPT !.lines[i] = Tail(@)]
         [] OTHER -> moved

\* add_lines(): character by character, a line is finished by its end.
AddLines(r, piece) ==
    LET after[k \in 0 .. Len(piece)] ==
          IF k = 0 THEN r
          ELSE LET before == after[k - 1]
                   more == [before EXCEPT !.lines[Len(before.lines)] = Append(@, piece[k])]
               IN IF piece[k] = EOL THEN HandleFinishedLine(more) ELSE more
    IN after[Len(piece)]

\* The lines from the first to the last, table.concat().
Concat(lines, first, last) ==
    LET text[i \in Nat] == IF i < first THEN <<>> ELSE text[i - 1] \o lines[i]
    IN IF last < first THEN <<>> ELSE text[last]

\* return_all() once the loop of recv() is over; without it the loop goes on.
ReturnAll(r) ==
    IF r.eod = 0 THEN reader' = r /\ recv_buffer' = <<>>
    ELSE /\ reader' = [r EXCEPT !.at = "done", !.lines = <<<<>>>>,
                                !.data = IF r.err THEN <<>> ELSE Concat(r.lines, 1, r.eod - 1)]
         /\ recv_buffer' = IF r.err THEN <<>> ELSE Concat(r.lines, r.eod + 1, Len(r.lines))

\* What arrives of the client: the data, and the command that follows it.
NextCommand == <<"x", EOL>>
Arriving == sent \o NextCommand

\* data_reader:recv(): from_recv_buffer(), with what came with the command
\* before, and one recv_piece() for every segment.
FromRecvBuffer(n) ==
    /\ sender.done /\ reader.at = "off"
    /\ ReturnAll(AddLines([reader EXCEPT !.at = "reading", !.pos = n], SubSeq(Arriving, 1, n)))
    /\ UNCHANGED <<message, iter_size, sender, sent>>
RecvPiece(n) ==
    LET size == reader.size + n
        r == [reader EXCEPT !.pos = @ + n, !.size = size]
    IN /\ reader.at = "reading" /\ n \in 1 .. Len(Arriving) - reader.pos
       /\ IF reader.max > 0 /\ size > reader.max
          THEN ReturnAll([r EXCEPT !.err = TRUE, !.eod = Len(reader.lines)])
          ELSE ReturnAll(AddLines(r, SubSeq(Arriving, reader.pos + 1, reader.pos + n)))
       /\ UNCHANGED <<message, iter_size, sender, sent>>

NewReader(max) == [at |-> "off", lines |-> <<<<>>>>, eod |-> 0, size |-> 0, err |-> FALSE,
                   pos |-> 0, max |-> max, data |-> <<>>]
DataInit ==
    /\ message \in Messages /\ iter_size \in IterSizes
    /\ sender = [i |-> 1, last_part |-> <<>>, done |-> FALSE] /\ sent = <<>>
    /\ \E max \in MaxSizes : reader = NewReader(max)
DataNext ==
    /\ \/ IteratorFunc
       \/ \E n \in 0 .. Len(Arriving) : FromRecvBuffer(n) \/ RecvPiece(n)
    /\ UNCHANGED replyVars

------------------------------------------------------------------------------
SmtpIoTypeOK ==
    /\ recv_buffer \in Seq(STRING) /\ stream \in Seq(STRING)
    /\ Len(results) <= Len(replies) /\ Len(reading) <= 1
    /\ sender.done \in BOOLEAN /\ reader.at \in {"off", "reading", "done"}
    /\ Len(sent) <= MaxSent + 2 * iter_size + 5

\* "You can safely expect the return table to be populated": recv_reply() returns
\* the server's replies, in order.
RepliesAsSent == results = SubSeq(replies, 1, Len(results))

\* Where reply k ends in the stream.
ReplyEnd(k) == Len(Wire(SubSeq(replies, 1, k)))
Received == Len(Wire(replies)) - Len(stream)
\* A reply of several lines arrives alone: no segment ends inside it or goes on
\* after it.
MultilineAlone ==
    \A k \in DOMAIN replies : Len(replies[k].lines) > 1 =>
        /\ cuts \cap (ReplyEnd(k - 1) + 1 .. ReplyEnd(k) - 1) = {}
        /\ Received >= ReplyEnd(k) => ReplyEnd(k) \in cuts

\* However the replies are cut into segments, pipelined or not, recv_reply()
\* returns each of them as sent and never waits for one that has arrived, as
\* long as replies of several lines arrive alone.
RepliesRead ==
    MultilineAlone => RepliesAsSent /\ (stream = <<>> => reading = <<>>)

\* What send_data() promises to carry: the text with its lines ended by CRLF, and
\* without the end of the last line.
TextOf(m) ==
    LET t == SelectSeq(m, LAMBDA ch : ch # "\r")
        out[i \in 0 .. Len(t)] ==
          IF i = 0 THEN <<>> ELSE out[i - 1] \o (IF t[i] = EOL THEN CRLF ELSE <<t[i]>>)
        text == out[Len(t)]
    IN IF t # <<>> /\ t[Len(t)] = EOL THEN SubSeq(text, 1, Len(text) - 2) ELSE text

\* "This function will apply the transparency filters specified by the RFC, so no
\* special care must be taken with the message data": the server reads the text
\* of the message, and the next command is left for it to read.
DataTransparent ==
    reader.at = "done" /\ ~reader.err =>
        /\ reader.data = TextOf(message)
        /\ recv_buffer \o Sub(Arriving, reader.pos + 1) = NextCommand

\* A message whose text does not begin with a period, and fits a single piece, arrives,
\* in whatever segments, with the next command behind it; it is refused only if
\* more than the limit arrives.
OnePiece == Len(message) <= iter_size /\ Len(Transparent(message)) <= iter_size
DataArrives ==
    OnePiece /\ LuaSub(TextOf(message), 1, 1) # <<".">> =>
        /\ DataTransparent
        /\ reader.at = "reading" => reader.pos < Len(sent)
        /\ reader.err => Len(Arriving) > reader.max
=============================================================================
