-------------------------- MODULE SmtpSessionProofs --------------------------
(***************************************************************************)
(* Proofs about SmtpSession for every program, every number of calls and   *)
(* every verdict of the handlers.                                          *)
(***************************************************************************)
EXTENDS SmtpSession, SequenceTheorems, TLAPS

Queue == client.recv_queue
Buffer == client.send_buffer

\* The tables that are filled come first, and the replies on their way next.
Filled == Len(tables) - Len(Queue)
Replied == Filled + Len(answers_out)

(***************************************************************************)
(* The queue of a client holds the last tables in order, and exactly these *)
(* are unfilled.                                                           *)
(***************************************************************************)
QueueInv ==
    /\ Len(Queue) <= Len(tables)
    /\ \A k \in 1..Len(Queue) : Queue[k] = Filled + k
    /\ \A i \in 1..Len(tables) : IF i > Filled THEN tables[i] = Unfilled ELSE tables[i].code # "nil"
    /\ client.at = "batch" => Queue # <<>>

(***************************************************************************)
(* Unless the rest of a message was left in the stream, replies, commands  *)
(* on their way and commands in the client's buffer continue the numbers of*)
(* the filled tables without a gap.  Data is only on its way while the     *)
(* server is in get_message_data(), and DATA is the last command of what   *)
(* the client has sent: it waits for the 354.                              *)
(***************************************************************************)
AnswersInOrder ==
    \A k \in 1..Len(answers_out) :
        \/ answers_out[k].id = Filled + k
        \/ answers_out[k].code = "421" /\ k = Len(answers_out) /\ server.at = "ended"

TablesInOrder ==
    \A i \in 1..Len(tables) : tables[i].code # "nil" => tables[i].id = i \/ tables[i].code = "421"

Greeting ==
    /\ answers_out = <<>> /\ commands = <<>> /\ Buffer = <<>>
    /\ client.at = "batch" /\ Len(tables) = 1 /\ Len(Queue) = 1 /\ ~client.data

Numbered(lines, n) == \A k \in 1..Len(lines) : lines[k].id = n + k

AllOf(lines, cmds) == \A k \in 1..Len(lines) : lines[k].cmd \in cmds

DataIsLast ==
    \A k \in 1..Len(commands) : commands[k].cmd = "DATA" =>
        k = Len(commands) /\ Buffer = <<>> /\ client.at = "batch" /\ client.call = "DATA"

Commanding ==
    /\ Len(answers_out) + Len(commands) + Len(Buffer) = Len(Queue)
    /\ Numbered(commands, Replied) /\ Numbered(Buffer, Replied + Len(commands))
    /\ AllOf(Buffer, {"MAIL", "RCPT"}) /\ DataIsLast
    /\ \A k \in 1..Len(answers_out) : answers_out[k].code # "354"
    /\ ~client.data

Accepting ==
    /\ commands = <<>> /\ answers_out # <<>> /\ Len(answers_out) = Len(Queue)
    /\ client.at = "batch" /\ client.call = "DATA"
    /\ answers_out[Len(answers_out)].code = "354"

Accepted ==
    /\ commands = <<>> /\ answers_out = <<>> /\ Queue = <<>>
    /\ (client.at = "idle" /\ client.data) \/ client.at = "closed"

Sent ==
    /\ answers_out = <<>> /\ Len(Queue) = 1 /\ client.at = "batch" /\ ~client.data
    /\ commands \in {<<[cmd |-> "text", id |-> Len(tables)], [cmd |-> "end", id |-> Len(tables)]>>,
                     <<[cmd |-> "end", id |-> Len(tables)]>>}

Exchange ==
    /\ server.at = "banner" => Greeting
    /\ server.at \in {"command", "tls"} => Commanding
    /\ server.at = "data" => Buffer = <<>> /\ (Accepting \/ Accepted \/ Sent)

OrderInv == ~spilled => AnswersInOrder /\ TablesInOrder /\ Exchange

(***************************************************************************)
(* The server has a sender or recipients when its handlers hold them, and  *)
(* the replies to the commands that gave them, on their way or in their    *)
(* tables, are 250.                                                        *)
(***************************************************************************)
EnvelopeInv ==
    /\ server.have_mailfrom => env.mail # 0
    /\ server.have_rcptto => server.have_mailfrom /\ env.rcpts # {}
    /\ server.at = "data" => server.have_rcptto
    /\ \A k \in 1..Len(delivered) : delivered[k].mail # 0 /\ delivered[k].rcpts # {}

Members(e) == (e.rcpts \cup {e.mail}) \ {0}

Reported(i) ==
    /\ i <= Len(tables)
    /\ server.at # "ended" => i <= Replied
    /\ tables[i].id = i => tables[i].code = "250"
    /\ \A k \in 1..Len(answers_out) : answers_out[k].id = i => answers_out[k].code = "250"

ReportInv ==
    ~spilled =>
        /\ \A i \in Members(env) : Reported(i)
        /\ \A k \in 1..Len(delivered) : \A i \in Members(delivered[k]) : Reported(i)

-----------------------------------------------------------------------------
(***************************************************************************)
(* What a turn of the server's loop does.                                  *)
(***************************************************************************)
LEMMA HandledType ==
  ASSUME SessionTypeOK, server.at = "command", NEW c \in Lines, NEW accept \in BOOLEAN
  PROVE  /\ Handled(c, accept).s \in ServerStates
         /\ Handled(c, accept).s.at # "banner"
         /\ Handled(c, accept).code \in ReplyCodes \ {"421"}
         /\ Handled(c, accept).env \in Envelopes
  <1> USE DEF Outcome, ServerStates, ReplyCodes, Envelopes, SessionTypeOK
  <1>1. CASE c.cmd = "EHLO"
    BY <1>1, Zenon DEF Handled, Ehlo, Greeted, NoEnvelope
  <1>2. CASE c.cmd = "HELO"
    BY <1>2, Zenon DEF Handled, Helo, Ehlo, Greeted, NoEnvelope
  <1>3. CASE c.cmd = "STARTTLS"
    BY <1>3, Zenon DEF Handled, StartTls, BadSequence
  <1>4. CASE c.cmd = "MAIL"
    BY <1>4, Zenon DEF Handled, Mail, BadSequence, Lines
  <1>5. CASE c.cmd = "RCPT"
    BY <1>5, Zenon DEF Handled, Rcpt, BadSequence, Lines
  <1>6. CASE c.cmd = "DATA"
    BY <1>6, Zenon DEF Handled, Data, BadSequence
  <1>7. CASE c.cmd = "RSET"
    BY <1>7, Zenon DEF Handled, Rset, NoEnvelope
  <1>8. CASE c.cmd = "QUIT"
    BY <1>8, Zenon DEF Handled
  <1>9. CASE c.cmd = "CUSTOM"
    BY <1>9 DEF Handled
  <1>10. CASE c.cmd \in {"send_data", "send_empty_data", "text", "end"}
    BY <1>10, Zenon DEF Handled
  <1>11. QED
    BY <1>1, <1>2, <1>3, <1>4, <1>5, <1>6, <1>7, <1>8, <1>9, <1>10, Zenon DEF Lines, Methods

-----------------------------------------------------------------------------
(***************************************************************************)
(* Types, and the queue of the client.                                     *)
(***************************************************************************)
LEMMA Fields ==
  ASSUME SessionTypeOK
  PROVE  Queue \in Seq(Nat) /\ Buffer \in Seq(Lines)
  BY DEF SessionTypeOK, ClientStates, Queue, Buffer

LEMMA Sizes ==
  ASSUME SessionTypeOK
  PROVE  /\ Len(Queue) \in Nat /\ Len(Buffer) \in Nat /\ Len(tables) \in Nat
         /\ Len(commands) \in Nat /\ Len(answers_out) \in Nat /\ Len(delivered) \in Nat
         /\ Filled \in Int /\ Replied \in Int
         /\ Filled + Len(Queue) = Len(tables) /\ Replied = Filled + Len(answers_out)
  BY Fields DEF SessionTypeOK, Filled, Replied

LEMMA SessionInitType == SessionInit => SessionTypeOK /\ QueueInv
  <1> SUFFICES ASSUME SessionInit PROVE SessionTypeOK /\ QueueInv
    OBVIOUS
  <1>1. session \in Sessions /\ session.extensions \in SUBSET STRING
    BY SessionAssumption DEF SessionInit, SessionStart
  <1>2. client \in ClientStates /\ server \in ServerStates
    BY <1>1 DEF SessionInit, SessionStart, ClientStates, ServerStates
  <1>3. Unfilled \in Tables /\ NoEnvelope \in Envelopes
    BY DEF Unfilled, NoEnvelope, Tables, Envelopes
  <1>4. /\ tables \in Seq(Tables) /\ commands \in Seq(Lines) /\ answers_out \in Seq(Replies)
        /\ env \in Envelopes /\ delivered \in Seq(Envelopes) /\ spilled \in BOOLEAN
    <2>1. <<Unfilled>> \in Seq(Tables)
      BY <1>3
    <2>2. QED
      BY <1>3, <2>1, EmptySeq, Zenon DEF SessionInit, SessionStart
  <1>5. Queue = <<1>> /\ tables = <<Unfilled>> /\ Unfilled.code = "nil"
    BY DEF SessionInit, SessionStart, Queue, Unfilled
  <1>6. Len(Queue) = 1 /\ Len(tables) = 1 /\ Filled = 0 /\ Queue[1] = 1 /\ tables[1] = Unfilled
    BY <1>5 DEF Filled
  <1>7. QueueInv
    BY <1>5, <1>6 DEF QueueInv
  <1>8. QED
    BY <1>1, <1>2, <1>4, <1>7 DEF SessionTypeOK

\* What a call puts into the buffer.
LEMMA CommandsOfType ==
  ASSUME NEW call \in Methods, NEW id \in Nat \ {0}
  PROVE  CommandsOf(call, id) \in Seq(Lines)
  <1>1. \A cmd \in Methods \cup {"text", "end"} : [cmd |-> cmd, id |-> id] \in Lines
    BY DEF Lines
  <1>2. CASE call = "send_data"
    BY <1>1, <1>2 DEF CommandsOf
  <1>3. CASE call = "send_empty_data"
    BY <1>1, <1>3 DEF CommandsOf
  <1>4. CASE call \notin {"send_data", "send_empty_data"}
    BY <1>1, <1>4 DEF CommandsOf
  <1>5. QED
    BY <1>2, <1>3, <1>4

LEMMA ClientCallType ==
  ASSUME SessionTypeOK, QueueInv, session' = session, NEW call \in Methods, ClientCall(call)
  PROVE  SessionTypeOK' /\ QueueInv' /\ Filled' = Filled
  <1> DEFINE id == Len(tables) + 1
             waits == ~(call \in {"MAIL", "RCPT"} /\ client.pipelining)
             out == client.send_buffer \o CommandsOf(call, id)
  <1>1. id \in Nat \ {0} /\ out \in Seq(Lines) /\ commands \o out \in Seq(Lines)
    BY CommandsOfType, Fields, Sizes DEF SessionTypeOK, Buffer
  <1> HIDE DEF id, out
  <1>2. Append(Queue, id) \in Seq(Nat) /\ Append(tables, Unfilled) \in Seq(Tables)
    <2>1. Unfilled \in Tables
      BY Zenon DEF Unfilled, Tables
    <2>2. QED
      BY <1>1, <2>1, Fields, Sizes DEF SessionTypeOK
  <1>3. PICK at \in {"batch", "idle"}, buffer \in Seq(Lines) :
            client' = [client EXCEPT !.at = at, !.call = call, !.recv_queue = Append(Queue, id),
                                     !.data = FALSE, !.send_buffer = buffer]
    <2>1. CASE waits
      BY <2>1, EmptySeq, ZenonT(30) DEF ClientCall, Enter, Queue, id
    <2>2. CASE ~waits
      BY <1>1, <2>2, Zenon DEF ClientCall, Enter, Queue, id, out
    <2>3. QED
      BY <2>1, <2>2, ZenonT(30)
  <1>3a. client' \in ClientStates /\ Queue' = Append(Queue, id) /\ client'.at \in {"batch", "idle"}
    BY <1>2, <1>3, Zenon DEF SessionTypeOK, ClientStates, Queue
  <1>4. SessionTypeOK'
    BY <1>1, <1>2, <1>3a DEF ClientCall, SessionTypeOK, id, out
  <1>5. tables' = Append(tables, Unfilled)
    BY DEF ClientCall
  <1>6. Len(Queue') = Len(Queue) + 1 /\ Len(tables') = Len(tables) + 1 /\ Filled' = Filled
    BY <1>2, <1>3a, <1>5, Fields, Sizes DEF SessionTypeOK, Filled
  <1>7. QueueInv'
    <2>1. \A k \in 1..Len(Queue') : Queue'[k] = Filled' + k
      <3>1. /\ \A k \in 1..Len(Queue) : Queue'[k] = Queue[k]
            /\ Queue'[Len(Queue) + 1] = id
        BY <1>1, <1>3a, Fields, Sizes, AppendProperties
      <3>2. QED
        <4>1. id = Filled + Len(Queue) + 1
          BY Fields, Sizes DEF Filled, id
        <4>2. QED
          <5> SUFFICES ASSUME NEW k \in 1..(Len(Queue) + 1) PROVE Queue'[k] = Filled + k
            BY <1>6
          <5>1. CASE k \in 1..Len(Queue)
            BY <3>1, <5>1 DEF QueueInv
          <5>2. CASE k = Len(Queue) + 1
            BY <3>1, <4>1, <5>2, Sizes
          <5>3. QED
            BY <5>1, <5>2, Sizes, SMTT(30)
    <2>2. \A i \in 1..Len(tables') :
            IF i > Filled' THEN tables'[i] = Unfilled ELSE tables'[i].code # "nil"
      BY <1>5, <1>6, Fields, Sizes DEF QueueInv, SessionTypeOK, Filled
    <2>3. QED
      <3>1. Queue' # <<>>
        BY <1>6, Fields, Sizes
      <3>2. Len(Queue') <= Len(tables')
        BY <1>6, Fields, Sizes DEF QueueInv
      <3>3. QED
        BY <2>1, <2>2, <3>1, <3>2 DEF QueueInv
  <1>8. QED
    BY <1>4, <1>6, <1>7

LEMMA RecvBatchType ==
  ASSUME SessionTypeOK, QueueInv, session' = session, RecvBatch
  PROVE  SessionTypeOK' /\ QueueInv' /\ Filled' = Filled + 1
  <1> DEFINE r == Head(answers_out)
  <1>1. r \in Replies /\ Tail(answers_out) \in Seq(Replies)
    BY DEF RecvBatch, SessionTypeOK
  <1>2. Queue # <<>> /\ Tail(Queue) \in Seq(Nat) /\ Head(Queue) = Filled + 1
        /\ Filled + 1 \in 1..Len(tables)
    <2>1. Queue # <<>>
      BY DEF RecvBatch, QueueInv
    <2>2. QED
      BY <2>1, Fields, Sizes DEF QueueInv, Filled
  <1>3. client' \in ClientStates /\ Queue' = Tail(Queue)
        /\ (client'.at = "batch" => Queue' # <<>>)
    BY <1>1, <1>2, ZenonT(30) DEF RecvBatch, SessionTypeOK, ClientStates, Queue, Replies
  <1>4. tables' = [tables EXCEPT ![Filled + 1] = [id |-> r.id, code |-> r.code]]
    BY <1>2, Zenon DEF RecvBatch, Queue
  <1>5. [id |-> r.id, code |-> r.code] \in Tables /\ r.code # "nil"
    BY <1>1 DEF Replies, Tables, ReplyCodes
  <1>6. tables' \in Seq(Tables) /\ Len(tables') = Len(tables)
    BY <1>2, <1>4, <1>5, ExceptSeq DEF SessionTypeOK
  <1>7. SessionTypeOK'
    BY <1>1, <1>3, <1>6 DEF RecvBatch, SessionTypeOK
  <1>8. Len(Queue') = Len(Queue) - 1 /\ Filled' = Filled + 1
    BY <1>2, <1>3, <1>6 DEF Filled, SessionTypeOK, ClientStates, Queue
  <1>9. \A k \in 1..Len(Queue') : Queue'[k] = Filled' + k
    <2>1. \A k \in 1..(Len(Queue) - 1) : Queue'[k] = Queue[k + 1]
      BY <1>2, <1>3, Fields, HeadTailProperties
    <2>2. QED
      BY <1>8, <2>1, Sizes, SMTT(30) DEF QueueInv
  <1>10. \A i \in 1..Len(tables') :
           IF i > Filled' THEN tables'[i] = Unfilled ELSE tables'[i].code # "nil"
    <2>1. \A i \in 1..Len(tables) : tables'[i] = IF i = Filled + 1 THEN [id |-> r.id, code |-> r.code]
                                                                   ELSE tables[i]
      BY <1>2, <1>4, <1>5 DEF SessionTypeOK
    <2>2. QED
      <3> SUFFICES ASSUME NEW i \in 1..Len(tables)
                   PROVE  IF i > Filled + 1 THEN tables'[i] = Unfilled ELSE tables'[i].code # "nil"
        BY <1>6, <1>8
      <3>1. CASE i = Filled + 1
        BY <1>5, <2>1, <3>1, Fields, Sizes, SMTT(30)
      <3>2. CASE i # Filled + 1
        BY <2>1, <3>2, Fields, Sizes, SMTT(30) DEF QueueInv
      <3>3. QED
        BY <3>1, <3>2
  <1>11. Len(Queue') <= Len(tables')
    BY <1>6, <1>8, Fields, Sizes DEF QueueInv
  <1>12. QED
    BY <1>3, <1>7, <1>8, <1>9, <1>10, <1>11, Zenon DEF QueueInv

\* The other steps leave the tables and the queue alone.
LEMMA SameQueue ==
  ASSUME SessionTypeOK, QueueInv, UNCHANGED tables, Queue' = Queue,
         client'.at = "batch" => client.at = "batch"
  PROVE  QueueInv' /\ Filled' = Filled
  BY DEF QueueInv, Filled

LEMMA ClientMovesType ==
  ASSUME SessionTypeOK, QueueInv, session' = session,
         ClientFails \/ ClientCloses \/ Handshake
  PROVE  SessionTypeOK' /\ QueueInv' /\ Filled' = Filled
  <1>1. PICK at \in {"idle", "closed", "failed"} : client' = [client EXCEPT !.at = at]
    BY DEF ClientFails, ClientCloses, Handshake
  <1>2. client' \in ClientStates /\ Queue' = Queue /\ client'.at # "batch"
    BY <1>1, Zenon DEF SessionTypeOK, ClientStates, Queue
  <1>3. server' \in ServerStates
    BY Zenon DEF ClientFails, ClientCloses, Handshake, SessionTypeOK, ServerStates
  <1>4. UNCHANGED <<tables, commands, answers_out, env, delivered, spilled>>
    BY DEF ClientFails, ClientCloses, Handshake
  <1>5. QED
    BY <1>2, <1>3, <1>4, SameQueue DEF SessionTypeOK

\* A reply the server appends.
LEMMA AnswerType ==
  ASSUME SessionTypeOK, NEW id \in Nat, NEW code \in ReplyCodes
  PROVE  /\ Answer(id, code) \in Replies
         /\ Append(answers_out, Answer(id, code)) \in Seq(Replies)
  <1>1. Answer(id, code) \in Replies
    BY DEF Answer, Replies
  <1>2. QED
    BY <1>1 DEF SessionTypeOK

LEMMA CommandType ==
  ASSUME SessionTypeOK, QueueInv, session' = session, NEW accept \in BOOLEAN, Command(accept)
  PROVE  SessionTypeOK' /\ QueueInv' /\ Filled' = Filled
  <1> DEFINE c == Head(commands)
             o == Handled(c, accept)
  <1>1. c \in Lines /\ Tail(commands) \in Seq(Lines)
    BY DEF Command, SessionTypeOK
  <1>2. o.s \in ServerStates /\ o.code \in ReplyCodes /\ o.env \in Envelopes
    BY <1>1, HandledType DEF Command
  <1>3. Append(answers_out, Answer(c.id, o.code)) \in Seq(Replies)
    BY <1>1, <1>2, AnswerType DEF Lines
  <1>4. SessionTypeOK'
    BY <1>1, <1>2, <1>3 DEF Command, SessionTypeOK
  <1>5. QED
    BY <1>4, SameQueue DEF Command, Queue

LEMMA GetMessageDataType ==
  ASSUME SessionTypeOK, QueueInv, session' = session,
         NEW accept \in BOOLEAN, NEW big \in BOOLEAN, NEW cut \in BOOLEAN,
         GetMessageData(accept, big, cut)
  PROVE  SessionTypeOK' /\ QueueInv' /\ Filled' = Filled
  <1>1. Head(commands) \in Lines /\ Head(commands).id \in Nat
    <2>1. commands # <<>> /\ commands \in Seq(Lines)
      BY DEF GetMessageData, SessionTypeOK
    <2>2. Head(commands) \in Lines
      BY <2>1
    <2>3. QED
      BY <2>2 DEF Lines
  <1>2. commands' \in Seq(Lines)
    <2>1. \A used \in {1, 2} : SubSeq(commands, used + 1, Len(commands)) \in Seq(Lines)
      BY DEF SessionTypeOK
    <2>2. QED
      BY <2>1 DEF GetMessageData
  <1>3. server' \in ServerStates
    BY Zenon DEF GetMessageData, SessionTypeOK, ServerStates
  <1>4. env' \in Envelopes
    BY DEF GetMessageData, NoEnvelope, Envelopes
  <1>5. delivered' \in Seq(Envelopes)
    BY DEF GetMessageData, SessionTypeOK
  <1>6. answers_out' \in Seq(Replies)
    BY <1>1, AnswerType DEF GetMessageData, ReplyCodes
  <1>7. spilled' \in BOOLEAN /\ UNCHANGED <<client, tables>>
    BY DEF GetMessageData, SessionTypeOK
  <1>8. QED
    BY <1>2, <1>3, <1>4, <1>5, <1>6, <1>7, SameQueue DEF SessionTypeOK, Queue

LEMMA ServerMovesType ==
  ASSUME SessionTypeOK, QueueInv, session' = session,
         Banner \/ ServerFails \/ ServerSeesEnd
  PROVE  SessionTypeOK' /\ QueueInv' /\ Filled' = Filled
  <1>1. server' \in ServerStates
    BY Zenon DEF Banner, ServerFails, ServerSeesEnd, SessionTypeOK, ServerStates
  <1>2. answers_out' \in Seq(Replies)
    BY AnswerType, Zenon DEF Banner, ServerFails, ServerSeesEnd, SessionTypeOK, ReplyCodes
  <1>3. UNCHANGED <<client, tables, commands, env, delivered, spilled>>
    BY DEF Banner, ServerFails, ServerSeesEnd
  <1>4. QED
    BY <1>1, <1>2, <1>3, SameQueue DEF SessionTypeOK, Queue

\* The calls of a program are methods of the client.
LEMMA SessionCalls ==
  ASSUME SessionTypeOK
  PROVE  session.calls \subseteq Methods /\ Verdicts \subseteq BOOLEAN
  BY SessionAssumption, Zenon DEF SessionTypeOK, Verdicts

-----------------------------------------------------------------------------
(***************************************************************************)
(* The order of commands and replies.                                      *)
(***************************************************************************)

\* Only DATA is answered with 354, and then the server reads data.
LEMMA HandledData ==
  ASSUME SessionTypeOK, server.at = "command", NEW c \in Lines, NEW accept \in BOOLEAN
  PROVE  /\ Handled(c, accept).code = "354" <=> Handled(c, accept).s.at = "data"
         /\ Handled(c, accept).s.at = "data" => c.cmd = "DATA"
  <1> USE DEF Outcome, ServerStates, SessionTypeOK
  <1>1. CASE c.cmd \in {"EHLO", "HELO"}
    BY <1>1 DEF Handled, Helo, Ehlo, Greeted
  <1>2. CASE c.cmd = "STARTTLS"
    BY <1>2 DEF Handled, StartTls, BadSequence
  <1>3. CASE c.cmd = "MAIL"
    BY <1>3 DEF Handled, Mail, BadSequence
  <1>4. CASE c.cmd = "RCPT"
    BY <1>4 DEF Handled, Rcpt, BadSequence
  <1>5. CASE c.cmd = "DATA"
    BY <1>5, Zenon DEF Handled, Data, BadSequence
  <1>6. CASE c.cmd \notin {"EHLO", "HELO", "STARTTLS", "MAIL", "RCPT", "DATA"}
    BY <1>6 DEF Handled, Rset
  <1>7. QED
    BY <1>1, <1>2, <1>3, <1>4, <1>5, <1>6

\* Sequences of numbered commands.
LEMMA ConcatLines ==
  ASSUME NEW s \in Seq(Lines), NEW t \in Seq(Lines), NEW n \in Int
  PROVE  /\ s \o t \in Seq(Lines) /\ Len(s \o t) = Len(s) + Len(t)
         /\ Numbered(s, n) /\ Numbered(t, n + Len(s)) => Numbered(s \o t, n)
         /\ \A cmds : AllOf(s, cmds) /\ AllOf(t, cmds) => AllOf(s \o t, cmds)
  <1>1. /\ s \o t \in Seq(Lines) /\ Len(s \o t) = Len(s) + Len(t)
        /\ Len(s) \in Nat /\ Len(t) \in Nat
    BY ConcatProperties
  <1>2. ASSUME NEW k \in 1..(Len(s) + Len(t))
        PROVE  \/ k \in 1..Len(s) /\ (s \o t)[k] = s[k]
               \/ k - Len(s) \in 1..Len(t) /\ (s \o t)[k] = t[k - Len(s)]
    BY <1>1, ConcatProperties
  <1>3. ASSUME Numbered(s, n), Numbered(t, n + Len(s)) PROVE Numbered(s \o t, n)
    BY <1>1, <1>2, <1>3 DEF Numbered
  <1>4. ASSUME NEW cmds, AllOf(s, cmds), AllOf(t, cmds) PROVE AllOf(s \o t, cmds)
    BY <1>1, <1>2, <1>4 DEF AllOf
  <1>5. QED
    BY <1>1, <1>3, <1>4

\* A line is added behind the buffer.
LEMMA AddLine ==
  ASSUME NEW s \in Seq(Lines), NEW line \in Lines, NEW out, out = s \o <<line>>
  PROVE  /\ out \in Seq(Lines) /\ Len(out) = Len(s) + 1
         /\ \A k \in 1..Len(s) : out[k] = s[k]
         /\ out[Len(s) + 1] = line
  <1>1. <<line>> \in Seq(Lines) /\ Len(<<line>>) = 1 /\ <<line>>[1] = line
    OBVIOUS
  <1>2. Len(s) \in Nat
    OBVIOUS
  <1>3. QED
    BY <1>1, <1>2, ConcatProperties

LEMMA AddNumbered ==
  ASSUME NEW s \in Seq(Lines), NEW line \in Lines, NEW out, out = s \o <<line>>,
         NEW n \in Int, Numbered(s, n), line.id = n + Len(s) + 1
  PROVE  Numbered(out, n)
  <1> SUFFICES ASSUME NEW k \in 1..(Len(s) + 1) PROVE out[k].id = n + k
    BY AddLine DEF Numbered
  <1>1. CASE k \in 1..Len(s)
    BY <1>1, AddLine DEF Numbered
  <1>2. CASE k = Len(s) + 1
    BY <1>2, AddLine
  <1>3. QED
    BY <1>1, <1>2

\* DATA is not among what was sent or buffered before.
LEMMA AddCommands ==
  ASSUME NEW s \in Seq(Lines), NEW line \in Lines, AllOf(s, {"MAIL", "RCPT"}),
         NEW out, out = s \o <<line>>
  PROVE  /\ line.cmd \in {"MAIL", "RCPT"} => AllOf(out, {"MAIL", "RCPT"})
         /\ \A k \in 1..Len(out) : out[k].cmd = "DATA" => k = Len(out) /\ line.cmd = "DATA"
  <1>1. \A k \in 1..Len(out) : k \in 1..Len(s) \/ k = Len(out)
    BY AddLine
  <1>2. QED
    BY <1>1, AddLine DEF AllOf

LEMMA ClientCallOrder ==
  ASSUME SessionTypeOK, QueueInv, OrderInv, session' = session, NEW call \in Methods,
         ClientCall(call)
  PROVE  OrderInv'
  <1> SUFFICES ASSUME ~spilled PROVE (AnswersInOrder /\ TablesInOrder /\ Exchange)'
    BY DEF ClientCall, OrderInv
  <1> DEFINE id == Len(tables) + 1
             waits == ~(call \in {"MAIL", "RCPT"} /\ client.pipelining)
             out == Buffer \o CommandsOf(call, id)
  <1>1. /\ client.at = "idle" /\ tables' = Append(tables, Unfilled)
        /\ client.data <=> call \in {"send_data", "send_empty_data"}
        /\ commands' = IF waits THEN commands \o out ELSE commands
        /\ UNCHANGED <<answers_out, server>>
    BY DEF ClientCall, Buffer
  <1>2. /\ Queue' = Append(Queue, id) /\ Buffer' = IF waits THEN <<>> ELSE out
        /\ client'.at = IF waits THEN "batch" ELSE "idle"
        /\ client'.call = call /\ client'.data = FALSE
    BY DEF ClientCall, Enter, SessionTypeOK, ClientStates, Queue, Buffer
  <1>3. Filled' = Filled /\ Replied' = Replied
    BY <1>1, ClientCallType DEF Replied
  <1>4. id = Filled + Len(Queue) + 1 /\ Len(Queue') = Len(Queue) + 1
        /\ Len(tables') = id
    BY <1>1, <1>2, Fields, Sizes DEF Filled, SessionTypeOK
  <1>5. AnswersInOrder' /\ TablesInOrder'
    <2>1. AnswersInOrder'
      BY <1>1, <1>3 DEF OrderInv, AnswersInOrder
    <2>2. /\ \A i \in 1..Len(tables) : tables'[i] = tables[i]
          /\ tables'[id].code = "nil"
      BY <1>1 DEF SessionTypeOK, Unfilled
    <2>3. TablesInOrder'
      <3> SUFFICES ASSUME NEW i \in 1..id, tables'[i].code # "nil"
                   PROVE  tables'[i].id = i \/ tables'[i].code = "421"
        BY <1>4 DEF TablesInOrder
      <3>1. i \in 1..Len(tables)
        BY <2>2, Fields, Sizes, SMTT(30)
      <3>2. QED
        BY <2>2, <3>1 DEF OrderInv, TablesInOrder
    <2>4. QED
      BY <2>1, <2>3
  <1>6. CASE server.at = "banner"
    BY <1>1, <1>6 DEF OrderInv, Exchange, Greeting
  <1>7. CASE server.at \in {"command", "tls"}
    <2>1. Commanding /\ call \notin {"send_data", "send_empty_data"}
      BY <1>1, <1>7 DEF OrderInv, Exchange, Commanding
    <2>2. CommandsOf(call, id) = <<[cmd |-> call, id |-> id]>>
      BY <2>1 DEF CommandsOf
    <2>3. /\ Len(answers_out) + Len(commands) + Len(Buffer) = Len(Queue)
          /\ Numbered(commands, Replied) /\ Numbered(Buffer, Replied + Len(commands))
          /\ AllOf(Buffer, {"MAIL", "RCPT"})
      BY <2>1 DEF Commanding
    <2>4. id \in Nat \ {0} /\ id - 1 = Replied + Len(commands) + Len(Buffer)
      BY <2>3, Sizes, SMTT(30)
    <2>5. \A k \in 1..Len(commands) : commands[k].cmd # "DATA"
      BY <1>1, <2>1 DEF Commanding, DataIsLast
    <2> HIDE DEF id
    <2> DEFINE line == [cmd |-> call, id |-> id]
    <2>6. line \in Lines /\ line.id = Replied + Len(commands) + Len(Buffer) + 1
      BY <2>4, Sizes DEF Lines
    <2>7. out = Buffer \o <<line>> /\ line.cmd = call
      BY <2>2
    <2> HIDE DEF line, out
    <2>8. out \in Seq(Lines) /\ Len(out) = Len(Buffer) + 1
      BY <2>6, <2>7, Fields, AddLine
    <2>9. Numbered(out, Replied + Len(commands))
      <3> DEFINE n == Replied + Len(commands)
      <3>1. n \in Int /\ line.id = n + Len(Buffer) + 1 /\ Numbered(Buffer, n)
        BY <2>3, <2>6, Sizes
      <3> HIDE DEF n
      <3>2. Numbered(out, n)
        BY <2>6, <2>7, <3>1, Fields, AddNumbered, Zenon
      <3>3. QED
        BY <3>2 DEF n
    <2>10. CASE waits
      <3>1. commands' = commands \o out /\ Buffer' = <<>> /\ commands \in Seq(Lines)
        BY <1>1, <1>2, <2>10, Zenon DEF SessionTypeOK
      <3>2. Len(commands') = Len(commands) + Len(Buffer) + 1
        <4>1. Len(commands') = Len(commands) + Len(out)
          BY <2>8, <3>1, ConcatProperties, Zenon
        <4>2. QED
          BY <2>8, <4>1, Sizes
      <3>3. Numbered(commands', Replied)
        BY <2>3, <2>8, <2>9, <3>1, Sizes, ConcatLines, Zenon
      <3>4. ASSUME NEW k \in 1..Len(commands'), commands'[k].cmd = "DATA"
            PROVE  k = Len(commands') /\ call = "DATA"
        <4>1. k \notin 1..Len(commands)
          BY <2>5, <2>8, <3>1, <3>4, ConcatProperties
        <4>2. k - Len(commands) \in 1..Len(out) /\ commands'[k] = out[k - Len(commands)]
          BY <2>8, <3>1, <3>2, <4>1, Sizes, ConcatProperties
        <4>3. k - Len(commands) = Len(out) /\ call = "DATA"
          BY <2>3, <2>6, <2>7, <3>4, <4>2, Fields, AddCommands, Zenon
        <4>4. QED
          BY <2>8, <3>2, <4>3, Sizes
      <3>5. DataIsLast'
        BY <1>2, <2>10, <3>1, <3>4 DEF DataIsLast
      <3>6. Len(answers_out') + Len(commands') + Len(Buffer') = Len(Queue')
        <4>1. Len(Buffer') = 0 /\ Len(answers_out') = Len(answers_out)
          BY <1>1, <3>1
        <4>2. Len(Queue') = Len(Queue) + 1
          BY <1>4
        <4>3. Len(answers_out) + Len(commands) + Len(Buffer) = Len(Queue)
          BY <2>3
        <4>4. QED
          BY <3>2, <4>1, <4>2, <4>3, Sizes, SMTT(30)
      <3>7. \A n : Numbered(Buffer', n) /\ AllOf(Buffer', {"MAIL", "RCPT"})
        BY <3>1 DEF Numbered, AllOf
      <3>8. Commanding'
        BY <1>1, <1>2, <1>3, <2>1, <3>3, <3>5, <3>6, <3>7, Zenon DEF Commanding
      <3>9. QED
        BY <1>1, <1>5, <1>7, <3>8 DEF Exchange
    <2>11. CASE ~waits
      <3>1. Buffer' = out /\ commands' = commands /\ call \in {"MAIL", "RCPT"}
        BY <1>1, <1>2, <2>11, Zenon
      <3>2. AllOf(out, {"MAIL", "RCPT"})
        BY <2>3, <2>6, <2>7, <3>1, Fields, AddCommands, Zenon
      <3>3. DataIsLast'
        BY <2>5, <3>1 DEF DataIsLast
      <3>4. Len(answers_out') + Len(commands') + Len(Buffer') = Len(Queue')
        <4>1. Len(answers_out') = Len(answers_out) /\ Len(commands') = Len(commands)
          BY <1>1, <3>1
        <4>2. Len(Buffer') = Len(Buffer) + 1 /\ Len(Queue') = Len(Queue) + 1
          BY <1>4, <2>8, <3>1
        <4>3. Len(answers_out) + Len(commands) + Len(Buffer) = Len(Queue)
          BY <2>3
        <4>4. QED
          BY <4>1, <4>2, <4>3, Sizes, SMTT(60)
      <3>5. Commanding'
        BY <1>1, <1>2, <1>3, <2>1, <2>3, <2>9, <3>1, <3>2, <3>3, <3>4 DEF Commanding
      <3>6. QED
        BY <1>1, <1>5, <1>7, <3>5 DEF Exchange
    <2>12. QED
      BY <2>10, <2>11
  <1>8. CASE server.at = "data"
    <2>1. Accepted /\ Buffer = <<>> /\ call \in {"send_data", "send_empty_data"} /\ waits
      BY <1>1, <1>8 DEF OrderInv, Exchange, Accepting, Accepted, Sent
    <2>2. commands' = CommandsOf(call, id)
      <3>1. CommandsOf(call, id) \in Seq(Lines)
        BY CommandsOfType, Fields, Sizes
      <3>2. QED
        BY <1>1, <2>1, <3>1, ConcatEmptySeq DEF Accepted
    <2>3. Sent'
      BY <1>1, <1>2, <1>4, <2>1, <2>2, Fields, Sizes DEF Accepted, Sent, CommandsOf
    <2>4. QED
      BY <1>1, <1>2, <1>5, <1>8, <2>1, <2>3 DEF Exchange
  <1>9. CASE server.at = "ended"
    BY <1>1, <1>5, <1>9 DEF Exchange
  <1>10. QED
    BY <1>6, <1>7, <1>8, <1>9 DEF SessionTypeOK, ServerStates

LEMMA RecvBatchOrder ==
  ASSUME SessionTypeOK, QueueInv, OrderInv, session' = session, RecvBatch
  PROVE  OrderInv'
  <1> SUFFICES ASSUME ~spilled PROVE (AnswersInOrder /\ TablesInOrder /\ Exchange)'
    BY Zenon DEF RecvBatch, OrderInv
  <1> DEFINE r == Head(answers_out)
  <1>1. /\ client.at = "batch" /\ answers_out # <<>> /\ answers_out' = Tail(answers_out)
        /\ UNCHANGED <<commands, server>>
    BY DEF RecvBatch
  <1>2. Len(answers_out) \in Nat \ {0} /\ Len(answers_out') = Len(answers_out) - 1
        /\ r = answers_out[1]
        /\ \A k \in 1..Len(answers_out') : answers_out'[k] = answers_out[k + 1]
    BY <1>1 DEF SessionTypeOK
  <1>3. Filled' = Filled + 1 /\ Replied' = Replied
    <2>1. Filled' = Filled + 1
      BY RecvBatchType
    <2>2. QED
      BY <1>2, <2>1, Sizes, SMTT(30) DEF Replied
  <1>4. Queue # <<>> /\ Head(Queue) = Filled + 1 /\ Filled + 1 \in 1..Len(tables)
    <2>1. Queue # <<>>
      BY <1>1 DEF QueueInv
    <2>2. Len(Queue) >= 1 /\ Head(Queue) = Queue[1]
      BY <2>1, Fields
    <2>3. QED
      BY <2>1, <2>2, Sizes DEF QueueInv
  <1>5. /\ Queue' = Tail(Queue) /\ Len(Queue') = Len(Queue) - 1
        /\ client'.at = "batch" <=> Queue' # <<>>
        /\ client'.data => Queue' = <<>> /\ r.code = "354"
        /\ Queue' = <<>> /\ client.call = "DATA" =>
              client'.at = "idle" /\ client'.data = (r.code = "354")
        /\ client'.call = client.call /\ Buffer' = Buffer
    <2>1. Queue' = Tail(Queue) /\ client'.call = client.call /\ Buffer' = Buffer
      BY DEF RecvBatch, SessionTypeOK, ClientStates, Queue, Buffer
    <2>2. Len(Queue') = Len(Queue) - 1
      BY <1>4, <2>1, Fields
    <2>3. /\ client'.at = "batch" <=> Queue' # <<>>
          /\ Queue' = <<>> /\ client.call = "DATA" => client'.at = "idle"
      BY Zenon DEF RecvBatch, SessionTypeOK, ClientStates, Queue
    <2>4. client'.data = (Queue' = <<>> /\ client.call = "DATA" /\ r.code = "354")
      BY DEF RecvBatch, SessionTypeOK, ClientStates, Queue
    <2>5. QED
      BY <2>1, <2>2, <2>3, <2>4, Zenon
  <1>6. AnswersInOrder'
    <2> SUFFICES ASSUME NEW k \in 1..Len(answers_out')
                 PROVE  \/ answers_out'[k].id = Filled' + k
                        \/ /\ answers_out'[k].code = "421" /\ k = Len(answers_out')
                           /\ server'.at = "ended"
      BY DEF AnswersInOrder
    <2>1. k + 1 \in 1..Len(answers_out) /\ answers_out'[k] = answers_out[k + 1]
      BY <1>2
    <2>2. \/ answers_out[k + 1].id = Filled + (k + 1)
          \/ /\ answers_out[k + 1].code = "421" /\ k + 1 = Len(answers_out)
             /\ server.at = "ended"
      BY <2>1, Zenon DEF OrderInv, AnswersInOrder
    <2>3. CASE answers_out[k + 1].id = Filled + (k + 1)
      BY <1>3, <2>1, <2>3, Sizes, SMTT(30)
    <2>4. CASE answers_out[k + 1].code = "421" /\ k + 1 = Len(answers_out) /\ server.at = "ended"
      BY <1>1, <1>2, <2>1, <2>4
    <2>5. QED
      BY <2>2, <2>3, <2>4
  <1>7. TablesInOrder'
    <2>1. r.id = Filled + 1 \/ r.code = "421"
      BY <1>2 DEF OrderInv, AnswersInOrder
    <2>2. tables' = [tables EXCEPT ![Filled + 1] = [id |-> r.id, code |-> r.code]]
      BY <1>4, Zenon DEF RecvBatch, Queue
    <2>3. Len(tables') = Len(tables) /\ \A i \in 1..Len(tables) :
            tables'[i] = IF i = Filled + 1 THEN [id |-> r.id, code |-> r.code] ELSE tables[i]
      BY <1>4, <2>2 DEF SessionTypeOK
    <2>4. QED
      BY <2>1, <2>3 DEF OrderInv, TablesInOrder
  <1>8. CASE server.at = "banner"
    BY <1>1, <1>8 DEF OrderInv, Exchange, Greeting
  <1>9. CASE server.at \in {"command", "tls"}
    <2>1. Commanding
      BY <1>9 DEF OrderInv, Exchange
    <2>2. /\ Len(answers_out) + Len(commands) + Len(Buffer) = Len(Queue)
          /\ Len(answers_out') + Len(commands') + Len(Buffer') = Len(Queue')
      <3>1. Len(answers_out) + Len(commands) + Len(Buffer) = Len(Queue)
        BY <2>1 DEF Commanding
      <3>2. Buffer' = Buffer /\ commands' = commands /\ Len(Queue') = Len(Queue) - 1
        BY <1>1, <1>5
      <3>3. QED
        BY <1>2, <3>1, <3>2, Sizes
    <2>3. r.code # "354"
      BY <1>2, <2>1 DEF Commanding
    <2>4. DataIsLast'
      <3>1. ASSUME NEW k \in 1..Len(commands) PROVE client'.at = "batch"
        <4>1. Len(Queue') >= 1
          BY <1>1, <1>2, <2>2, Sizes
        <4>2. QED
          BY <1>5, <4>1, SMTT(30)
      <3>2. QED
        BY <1>1, <1>5, <2>1, <3>1 DEF Commanding, DataIsLast
    <2>5. \A k \in 1..Len(answers_out') : answers_out'[k].code # "354"
      BY <1>2, <2>1 DEF Commanding
    <2>6. Commanding'
      BY <1>1, <1>3, <1>5, <2>1, <2>2, <2>3, <2>4, <2>5, Zenon DEF Commanding
    <2>7. QED
      BY <1>1, <1>6, <1>7, <1>9, <2>6 DEF Exchange
  <1>10. CASE server.at = "data"
    <2>1. Accepting /\ Buffer = <<>>
      BY <1>1, <1>10, Zenon DEF OrderInv, Exchange, Accepted, Sent
    <2>2. CASE Len(answers_out) = 1
      <3>1. answers_out' = <<>> /\ Queue' = <<>> /\ r.code = "354"
        <4>1. answers_out' = <<>>
          BY <1>1, <1>2, <2>2, SMTT(30) DEF SessionTypeOK
        <4>2. Len(Queue') = 0
          BY <1>5, <2>1, <2>2 DEF Accepting
        <4>3. Queue' = <<>>
          <5>1. Tail(Queue) \in Seq(Nat)
            BY <1>4, Fields
          <5>2. QED
            BY <1>5, <4>2, <5>1, EmptySeq, Zenon
        <4>4. QED
          BY <1>2, <2>1, <2>2, <4>1, <4>3, Zenon DEF Accepting
      <3>2. Accepted'
        BY <1>1, <1>5, <2>1, <3>1, Zenon DEF Accepting, Accepted
      <3>3. QED
        BY <1>1, <1>5, <1>6, <1>7, <1>10, <2>1, <3>2, Zenon DEF Exchange
    <2>3. CASE Len(answers_out) > 1
      <3>1. answers_out' # <<>> /\ Len(answers_out') = Len(Queue') /\ Queue' # <<>>
        <4>1. Len(answers_out') = Len(Queue') /\ Len(Queue') >= 1
          BY <1>2, <1>5, <2>1, <2>3, Sizes DEF Accepting
        <4>2. QED
          BY <4>1
      <3>2. answers_out'[Len(answers_out')].code = "354"
        BY <1>2, <2>1, <2>3 DEF Accepting
      <3>3. Accepting'
        BY <1>1, <1>5, <2>1, <3>1, <3>2, Zenon DEF Accepting
      <3>4. QED
        BY <1>1, <1>5, <1>6, <1>7, <1>10, <2>1, <3>3 DEF Exchange
    <2>4. QED
      BY <1>2, <2>2, <2>3
  <1>11. CASE server.at = "ended"
    BY <1>1, <1>6, <1>7, <1>11 DEF Exchange
  <1>12. QED
    BY <1>8, <1>9, <1>10, <1>11, Zenon DEF SessionTypeOK, ServerStates

\* A client that only moves, and the handshake.
LEMMA ClientMovesOrder ==
  ASSUME SessionTypeOK, QueueInv, OrderInv, session' = session,
         ClientFails \/ ClientCloses \/ Handshake
  PROVE  OrderInv'
  <1> SUFFICES ASSUME ~spilled PROVE (AnswersInOrder /\ TablesInOrder /\ Exchange)'
    BY DEF ClientFails, ClientCloses, Handshake, OrderInv
  <1>1. UNCHANGED <<tables, commands, answers_out>>
    BY DEF ClientFails, ClientCloses, Handshake
  <1>2. PICK at \in {"idle", "closed", "failed"} : client' = [client EXCEPT !.at = at]
    BY DEF ClientFails, ClientCloses, Handshake
  <1>3. /\ Queue' = Queue /\ Buffer' = Buffer /\ client'.data = client.data
        /\ client'.call = client.call
    BY <1>2, Zenon DEF SessionTypeOK, ClientStates, Queue, Buffer
  <1>4. Filled' = Filled /\ Replied' = Replied
    BY <1>1, <1>3 DEF Filled, Replied
  <1>5. server.at = "ended" => server'.at = "ended"
    BY DEF ClientFails, ClientCloses, Handshake
  <1>6. AnswersInOrder' /\ TablesInOrder'
    BY <1>1, <1>4, <1>5, Zenon DEF OrderInv, AnswersInOrder, TablesInOrder
  <1>7. ASSUME server.at \in {"command", "tls"}, client.at # "batch"
        PROVE  Commanding'
    BY <1>1, <1>3, <1>4, <1>7 DEF OrderInv, Exchange, Commanding, DataIsLast
  <1>8. CASE ClientFails
    BY <1>6, <1>8 DEF ClientFails, Exchange
  <1>9. CASE ClientCloses
    <2>1. client.at \in {"idle", "tls"} /\ server' = server /\ client'.at = "closed"
      BY <1>9 DEF ClientCloses, SessionTypeOK, ClientStates
    <2>2. server.at # "banner"
      BY <2>1, Zenon DEF OrderInv, Exchange, Greeting
    <2>3. server.at = "data" => Buffer' = <<>> /\ Accepted'
      BY <1>1, <1>3, <2>1 DEF OrderInv, Exchange, Accepting, Accepted, Sent
    <2>4. QED
      BY <1>6, <1>7, <2>1, <2>2, <2>3 DEF Exchange
  <1>10. CASE Handshake
    <2>1. server.at = "tls" /\ client.at = "tls" /\ server'.at \in {"command", "ended"}
      BY <1>10 DEF Handshake, SessionTypeOK, ServerStates
    <2>2. QED
      BY <1>6, <1>7, <2>1 DEF Exchange
  <1>11. QED
    BY <1>8, <1>9, <1>10

\* A reply is appended.
LEMMA AnswerAppended ==
  ASSUME SessionTypeOK, NEW r \in Replies, answers_out' = Append(answers_out, r)
  PROVE  /\ Len(answers_out') = Len(answers_out) + 1
         /\ \A k \in 1..Len(answers_out) : answers_out'[k] = answers_out[k]
         /\ answers_out'[Len(answers_out) + 1] = r
         /\ 1..Len(answers_out') = 1..Len(answers_out) \cup {Len(answers_out) + 1}
  BY DEF SessionTypeOK

\* Before the server ends, every reply carries its number.
LEMMA AnswersNumbered ==
  ASSUME SessionTypeOK, OrderInv, ~spilled, server.at # "ended", UNCHANGED <<client, tables>>,
         NEW r \in Replies, answers_out' = Append(answers_out, r),
         r.id = Replied + 1 \/ (r.code = "421" /\ server'.at = "ended")
  PROVE  AnswersInOrder' /\ TablesInOrder' /\ Replied' = Replied + 1
  <1>1. Filled' = Filled /\ Queue' = Queue /\ Buffer' = Buffer
    BY DEF Filled, Queue, Buffer
  <1>2. Replied' = Replied + 1
    BY <1>1, AnswerAppended, Sizes DEF Replied
  <1>3. \A k \in 1..Len(answers_out) : answers_out'[k].id = Filled' + k
    BY <1>1, AnswerAppended DEF OrderInv, AnswersInOrder
  <1>4. AnswersInOrder'
    <2> SUFFICES ASSUME NEW k \in 1..Len(answers_out')
                 PROVE  \/ answers_out'[k].id = Filled' + k
                        \/ /\ answers_out'[k].code = "421" /\ k = Len(answers_out')
                           /\ server'.at = "ended"
      BY DEF AnswersInOrder
    <2>1. CASE k \in 1..Len(answers_out)
      BY <1>3, <2>1, Zenon
    <2>2. CASE k = Len(answers_out) + 1
      BY <1>1, <2>2, AnswerAppended, Sizes, SMTT(30)
    <2>3. QED
      BY <2>1, <2>2, AnswerAppended, Zenon
  <1>5. TablesInOrder'
    BY DEF OrderInv, TablesInOrder
  <1>6. QED
    BY <1>2, <1>4, <1>5

LEMMA BannerOrder ==
  ASSUME SessionTypeOK, QueueInv, OrderInv, session' = session, Banner
  PROVE  OrderInv'
  <1> SUFFICES ASSUME ~spilled PROVE (AnswersInOrder /\ TablesInOrder /\ Exchange)'
    BY DEF Banner, OrderInv
  <1> DEFINE r == Answer(1, "220")
  <1>1. /\ server.at = "banner" /\ answers_out' = Append(answers_out, r)
        /\ UNCHANGED <<client, tables, commands>>
    BY DEF Banner
  <1>2. server'.at = "command"
    BY DEF Banner, SessionTypeOK, ServerStates
  <1>3. r \in Replies /\ r.id = 1 /\ r.code = "220"
    BY DEF Answer, Replies, ReplyCodes
  <1>4. Greeting
    BY <1>1 DEF OrderInv, Exchange
  <1>5. Replied = 0
    BY <1>4, Sizes DEF Greeting
  <1> HIDE DEF r
  <1>6. AnswersInOrder' /\ TablesInOrder'
    BY <1>1, <1>3, <1>5, AnswersNumbered
  <1>7. Len(answers_out') = 1 /\ answers_out'[1] = r
    BY <1>1, <1>3, <1>4, AnswerAppended DEF Greeting
  <1>8. Queue' = Queue /\ Buffer' = <<>> /\ commands' = <<>> /\ Len(Queue) = 1 /\ ~client'.data
    BY <1>1, <1>4, Zenon DEF Greeting, Queue, Buffer
  <1>9. Commanding'
    BY <1>3, <1>7, <1>8 DEF Commanding, DataIsLast, Numbered, AllOf
  <1>10. QED
    BY <1>2, <1>6, <1>9 DEF Exchange

LEMMA ServerEndsOrder ==
  ASSUME SessionTypeOK, QueueInv, OrderInv, session' = session, ServerFails \/ ServerSeesEnd
  PROVE  OrderInv'
  <1> SUFFICES ASSUME ~spilled PROVE (AnswersInOrder /\ TablesInOrder /\ Exchange)'
    BY DEF ServerFails, ServerSeesEnd, OrderInv
  <1>1. /\ server.at # "ended" /\ server'.at = "ended" /\ UNCHANGED <<client, tables>>
    BY Zenon DEF ServerFails, ServerSeesEnd, SessionTypeOK, ServerStates
  <1>2. CASE ServerFails
    <2>1. Answer(0, "421") \in Replies /\ Answer(0, "421").code = "421"
      BY DEF Answer, Replies, ReplyCodes
    <2>2. QED
      BY <1>1, <1>2, <2>1, AnswersNumbered, Zenon DEF ServerFails, Exchange
  <1>3. CASE ServerSeesEnd
    <2>1. answers_out' = answers_out /\ Filled' = Filled
      BY <1>1, <1>3, Zenon DEF ServerSeesEnd, Filled, Queue
    <2>2. QED
      BY <1>1, <2>1 DEF OrderInv, AnswersInOrder, TablesInOrder, Exchange
  <1>4. QED
    BY <1>2, <1>3

LEMMA CommandOrder ==
  ASSUME SessionTypeOK, QueueInv, OrderInv, session' = session, NEW accept \in BOOLEAN,
         Command(accept)
  PROVE  OrderInv'
  <1> SUFFICES ASSUME ~spilled PROVE (AnswersInOrder /\ TablesInOrder /\ Exchange)'
    BY DEF Command, OrderInv
  <1> DEFINE c == Head(commands)
             o == Handled(c, accept)
             r == Answer(c.id, o.code)
  <1>1. /\ server.at = "command" /\ commands # <<>> /\ commands' = Tail(commands)
        /\ server' = o.s /\ answers_out' = Append(answers_out, r)
        /\ UNCHANGED <<client, tables>>
    BY DEF Command
  <1>2. c \in Lines /\ c = commands[1] /\ Len(commands) >= 1 /\ Len(commands') = Len(commands) - 1
        /\ \A k \in 1..Len(commands') : commands'[k] = commands[k + 1]
    BY <1>1 DEF SessionTypeOK
  <1>3. Commanding
    BY <1>1, Zenon DEF OrderInv, Exchange
  <1>4. c.id = Replied + 1 /\ c.id \in Nat
    BY <1>2, <1>3, Sizes DEF Commanding, Numbered, Lines
  <1>5. r \in Replies /\ r.id = Replied + 1 /\ r.code = o.code
    <2>1. o.code \in ReplyCodes
      BY <1>1, <1>2, HandledType, Zenon
    <2>2. QED
      BY <1>4, <2>1 DEF Answer, Replies
  <1>6. /\ server'.at \in {"command", "data", "tls", "ended"}
        /\ o.code = "354" <=> server'.at = "data"
        /\ server'.at = "data" => c.cmd = "DATA"
    BY <1>1, <1>2, HandledType, HandledData DEF ServerStates
  <1> HIDE DEF r, o, c
  <1>7. AnswersInOrder' /\ TablesInOrder' /\ Replied' = Replied + 1
    BY <1>1, <1>5, AnswersNumbered, Zenon
  <1>8. /\ Len(answers_out') = Len(answers_out) + 1
        /\ answers_out'[Len(answers_out')].code = o.code
    BY <1>1, <1>5, AnswerAppended, Zenon
  <1>9. Queue' = Queue /\ Buffer' = Buffer
    BY <1>1 DEF Queue, Buffer
  <1>10. Len(answers_out') + Len(commands') + Len(Buffer') = Len(Queue')
    <2>1. Len(answers_out) + Len(commands) + Len(Buffer) = Len(Queue)
      BY <1>3 DEF Commanding
    <2>2. Len(commands') = Len(commands) - 1 /\ Len(answers_out') = Len(answers_out) + 1
      BY <1>2, <1>8
    <2>3. Len(Buffer') = Len(Buffer) /\ Len(Queue') = Len(Queue)
      BY <1>9
    <2>4. QED
      BY <2>1, <2>2, <2>3, Sizes, SMTT(30)
  <1>11. CASE server'.at \in {"command", "tls"}
    <2>1. Numbered(commands', Replied')
      <3> SUFFICES ASSUME NEW k \in 1..Len(commands') PROVE commands'[k].id = Replied + 1 + k
        BY <1>7 DEF Numbered
      <3>1. k + 1 \in 1..Len(commands)
        BY <1>2, Sizes
      <3>2. commands[k + 1].id = Replied + (k + 1)
        BY <1>3, <3>1 DEF Commanding, Numbered
      <3>3. QED
        BY <1>2, <3>2, Sizes, SMTT(30)
    <2>2. Replied' + Len(commands') = Replied + Len(commands)
      BY <1>2, <1>7, Sizes, SMTT(30)
    <2>3. DataIsLast'
      <3> SUFFICES ASSUME NEW k \in 1..Len(commands'), commands'[k].cmd = "DATA"
                   PROVE  k = Len(commands') /\ Buffer = <<>> /\ client.at = "batch" /\ client.call = "DATA"
        BY <1>1, <1>9, Zenon DEF DataIsLast
      <3>1. k + 1 \in 1..Len(commands) /\ commands[k + 1].cmd = "DATA"
        BY <1>2, Sizes, SMTT(30)
      <3>2. k + 1 = Len(commands) /\ Buffer = <<>> /\ client.at = "batch" /\ client.call = "DATA"
        BY <1>3, <3>1 DEF Commanding, DataIsLast
      <3>3. QED
        BY <1>2, <3>2
    <2>4. \A k \in 1..Len(answers_out') : answers_out'[k].code # "354"
      <3>1. o.code # "354"
        BY <1>6, <1>11
      <3>2. QED
        BY <1>1, <1>3, <1>5, <3>1, AnswerAppended DEF Commanding
    <2>5. Commanding'
      BY <1>1, <1>3, <1>9, <1>10, <2>1, <2>2, <2>3, <2>4, Zenon DEF Commanding
    <2>6. QED
      BY <1>7, <1>11, <2>5 DEF Exchange
  <1>12. CASE server'.at = "data"
    <2>1. Len(commands) = 1 /\ Buffer = <<>> /\ client.at = "batch" /\ client.call = "DATA"
      BY <1>2, <1>3, <1>6, <1>12 DEF Commanding, DataIsLast
    <2>2. commands' = <<>> /\ Len(commands') = 0
      BY <1>1, <1>2, <2>1, SMTT(30) DEF SessionTypeOK
    <2>3. Len(answers_out') = Len(Queue') /\ answers_out' # <<>>
      <3>1. Len(Buffer') = 0
        BY <1>9, <2>1, Zenon
      <3>2. QED
        BY <1>8, <1>10, <2>2, <3>1, Sizes
    <2>4. Accepting'
      BY <1>1, <1>6, <1>8, <1>12, <2>1, <2>2, <2>3, Zenon DEF Accepting
    <2>5. QED
      BY <1>7, <1>9, <1>12, <2>1, <2>4, Zenon DEF Exchange
  <1>13. CASE server'.at = "ended"
    BY <1>7, <1>13 DEF Exchange
  <1>14. QED
    BY <1>6, <1>11, <1>12, <1>13, Zenon

LEMMA GetMessageDataOrder ==
  ASSUME SessionTypeOK, QueueInv, OrderInv, session' = session,
         NEW accept \in BOOLEAN, NEW big \in BOOLEAN, NEW cut \in BOOLEAN,
         GetMessageData(accept, big, cut)
  PROVE  OrderInv'
  <1> SUFFICES ASSUME ~spilled, ~cut PROVE (AnswersInOrder /\ TablesInOrder /\ Exchange)'
    BY DEF GetMessageData, OrderInv, SessionTypeOK
  <1> DEFINE c == Head(commands)
             r == Answer(c.id, IF accept THEN "250" ELSE "550")
  <1>1. /\ server.at = "data" /\ commands # <<>> /\ answers_out' = Append(answers_out, r)
        /\ commands' = SubSeq(commands, (IF c.cmd = "end" THEN 2 ELSE 3), Len(commands))
        /\ UNCHANGED <<client, tables>>
    BY DEF GetMessageData
  <1>2. server'.at = "command"
    BY Zenon DEF GetMessageData, SessionTypeOK, ServerStates
  <1>3. Sent /\ Buffer = <<>>
    BY <1>1, Zenon DEF OrderInv, Exchange, Accepting, Accepted
  <1>4. c.id = Len(tables) /\ commands' = <<>>
    <2>1. CASE commands = <<[cmd |-> "text", id |-> Len(tables)], [cmd |-> "end", id |-> Len(tables)]>>
      BY <1>1, <2>1
    <2>2. CASE commands = <<[cmd |-> "end", id |-> Len(tables)]>>
      BY <1>1, <2>2
    <2>3. QED
      BY <1>3, <2>1, <2>2, Zenon DEF Sent
  <1>5. answers_out = <<>> /\ Len(Queue) = 1 /\ ~client.data
    BY <1>3 DEF Sent
  <1>6. c.id = Replied + 1
    BY <1>4, <1>5, Sizes
  <1>7. r \in Replies /\ r.id = c.id /\ r.code # "354"
    BY <1>4, Sizes DEF Answer, Replies, ReplyCodes
  <1> HIDE DEF r, c
  <1>8. AnswersInOrder' /\ TablesInOrder'
    BY <1>1, <1>6, <1>7, AnswersNumbered
  <1>9. Len(answers_out') = 1 /\ answers_out'[1] = r
    BY <1>1, <1>5, <1>7, AnswerAppended
  <1>10. Queue' = Queue /\ Buffer' = <<>> /\ ~client'.data
    BY <1>1, <1>3, <1>5, Zenon DEF Queue, Buffer
  <1>11. Commanding'
    BY <1>4, <1>5, <1>7, <1>9, <1>10 DEF Commanding, DataIsLast, Numbered, AllOf
  <1>12. QED
    BY <1>2, <1>8, <1>11 DEF Exchange


-----------------------------------------------------------------------------
(***************************************************************************)
(* The envelope: what the handlers of the server hold, and what the client *)
(* has been told about it.                                                 *)
(***************************************************************************)
LEMMA HandledEnvelope ==
  ASSUME SessionTypeOK, EnvelopeInv, server.at = "command",
         NEW c \in Lines, NEW accept \in BOOLEAN
  PROVE  LET o == Handled(c, accept)
         IN /\ o.s.have_mailfrom => o.env.mail # 0
            /\ o.s.have_rcptto => o.s.have_mailfrom /\ o.env.rcpts # {}
            /\ o.s.at = "data" => o.s.have_rcptto
            /\ \/ Members(o.env) \subseteq Members(env)
               \/ Members(o.env) \subseteq Members(env) \cup {c.id} /\ o.code = "250"
  <1> USE DEF Outcome, ServerStates, Envelopes, SessionTypeOK, EnvelopeInv, Members
  <1>1. CASE c.cmd = "EHLO"
    BY <1>1, Zenon DEF Handled, Ehlo, Greeted, NoEnvelope
  <1>2. CASE c.cmd = "HELO"
    BY <1>2 DEF Handled, Helo, Ehlo, Greeted, NoEnvelope
  <1>3. CASE c.cmd = "STARTTLS"
    BY <1>3 DEF Handled, StartTls, BadSequence
  <1>4. CASE c.cmd = "MAIL"
    BY <1>4 DEF Handled, Mail, BadSequence, Lines
  <1>5. CASE c.cmd = "RCPT"
    BY <1>5, Zenon DEF Handled, Rcpt, BadSequence, Lines
  <1>6. CASE c.cmd = "DATA"
    BY <1>6 DEF Handled, Data, BadSequence
  <1>7. CASE c.cmd = "RSET"
    BY <1>7, Zenon DEF Handled, Rset, NoEnvelope
  <1>8. CASE c.cmd = "QUIT"
    BY <1>8, Zenon DEF Handled
  <1>9. CASE c.cmd = "CUSTOM"
    BY <1>9, Zenon DEF Handled
  <1>10. CASE c.cmd \in {"send_data", "send_empty_data", "text", "end"}
    BY <1>10, Zenon DEF Handled
  <1>11. QED
    BY <1>1, <1>2, <1>3, <1>4, <1>5, <1>6, <1>7, <1>8, <1>9, <1>10, Zenon DEF Lines, Methods

LEMMA MemberNumbers ==
  ASSUME SessionTypeOK
  PROVE  /\ Members(env) \subseteq Nat \ {0}
         /\ \A k \in 1..Len(delivered) : Members(delivered[k]) \subseteq Nat \ {0}
  <1>1. \A e \in Envelopes : Members(e) \subseteq Nat \ {0}
    BY DEF Envelopes, Members
  <1>2. \A k \in 1..Len(delivered) : delivered[k] \in Envelopes
    BY DEF SessionTypeOK
  <1>3. QED
    BY <1>1, <1>2 DEF SessionTypeOK

LEMMA CommandEnvelope ==
  ASSUME SessionTypeOK, EnvelopeInv, NEW accept \in BOOLEAN, Command(accept)
  PROVE  EnvelopeInv'
  <1> DEFINE c == Head(commands)
             o == Handled(c, accept)
  <1>1. /\ server.at = "command" /\ c \in Lines
        /\ server' = o.s /\ env' = o.env /\ delivered' = delivered
    BY DEF Command, SessionTypeOK
  <1>2. /\ o.s.have_mailfrom => o.env.mail # 0
        /\ o.s.have_rcptto => o.s.have_mailfrom /\ o.env.rcpts # {}
        /\ o.s.at = "data" => o.s.have_rcptto
    BY <1>1, HandledEnvelope, Zenon
  <1> HIDE DEF o, c
  <1>3. QED
    BY <1>1, <1>2, Zenon DEF EnvelopeInv

LEMMA GetMessageDataEnvelope ==
  ASSUME SessionTypeOK, EnvelopeInv, NEW accept \in BOOLEAN, NEW big \in BOOLEAN,
         NEW cut \in BOOLEAN, GetMessageData(accept, big, cut)
  PROVE  EnvelopeInv'
  <1>1. /\ server'.at = "command" /\ ~server'.have_mailfrom /\ ~server'.have_rcptto
    BY DEF GetMessageData, SessionTypeOK, ServerStates
  <1>2. env.mail # 0 /\ env.rcpts # {} /\ env \in Envelopes /\ delivered \in Seq(Envelopes)
    BY Zenon DEF GetMessageData, EnvelopeInv, SessionTypeOK
  <1>3. \A k \in 1..Len(delivered') : delivered'[k].mail # 0 /\ delivered'[k].rcpts # {}
    <2>1. CASE big
      BY <2>1, Zenon DEF GetMessageData, EnvelopeInv
    <2>2. CASE ~big
      <3>1. delivered' = Append(delivered, env)
        BY <2>2, Zenon DEF GetMessageData
      <3>2. QED
        BY <1>2, <3>1, AppendProperties DEF EnvelopeInv
    <2>3. QED
      BY <2>1, <2>2
  <1>4. QED
    BY <1>1, <1>3 DEF EnvelopeInv

LEMMA OthersEnvelope ==
  ASSUME SessionTypeOK, EnvelopeInv,
         \/ \E call \in Methods : ClientCall(call)
         \/ RecvBatch \/ ClientFails \/ ClientCloses \/ Handshake \/ Banner \/ ServerFails \/ ServerSeesEnd
  PROVE  EnvelopeInv'
  <1>1. UNCHANGED <<env, delivered>>
    BY ZenonT(30) DEF ClientCall, RecvBatch, ClientFails, ClientCloses, Handshake, Banner, ServerFails, ServerSeesEnd
  <1>2. PICK at \in {"command", "ended", server.at} : server' = [server EXCEPT !.at = at]
    <2>1. server = [server EXCEPT !.at = server.at]
      BY DEF SessionTypeOK, ServerStates
    <2>2. QED
      BY <2>1, Zenon DEF ClientCall, RecvBatch, ClientFails, ClientCloses, Handshake, Banner, ServerFails, ServerSeesEnd
  <1>3. /\ server'.have_mailfrom = server.have_mailfrom /\ server'.have_rcptto = server.have_rcptto
        /\ server'.at = "data" => server.at = "data"
    BY <1>2, Zenon DEF SessionTypeOK, ServerStates
  <1>4. QED
    BY <1>1, <1>3, Zenon DEF EnvelopeInv


\* A reply to a later command, or the 421, leaves what was reported alone.
LEMMA ReportedAppended ==
  ASSUME SessionTypeOK, NEW i \in Nat \ {0}, Reported(i), server.at # "ended",
         UNCHANGED <<client, tables>>, NEW r \in Replies, answers_out' = Append(answers_out, r),
         r.id = 0 \/ r.id = Replied + 1
  PROVE  Reported(i)'
  <1>1. Filled' = Filled
    BY Zenon DEF Filled, Queue
  <1>2. Replied' = Replied + 1
    BY <1>1, AnswerAppended, Sizes DEF Replied
  <1>3. i <= Replied
    BY DEF Reported
  <1>4. r.id # i
    BY <1>3, Sizes
  <1>5. \A k \in 1..Len(answers_out') : answers_out'[k].id = i => answers_out'[k].code = "250"
    BY <1>4, AnswerAppended DEF Reported
  <1>6. i <= Replied'
    BY <1>2, <1>3, Sizes, SMTT(30)
  <1>7. QED
    BY <1>5, <1>6, Zenon DEF Reported

LEMMA ClientCallReport ==
  ASSUME SessionTypeOK, QueueInv, ReportInv, session' = session, NEW call \in Methods,
         ClientCall(call)
  PROVE  ReportInv'
  <1>1. /\ tables' = Append(tables, Unfilled) /\ UNCHANGED <<answers_out, server, env, delivered, spilled>>
    BY DEF ClientCall
  <1>2. Filled' = Filled
    BY ClientCallType
  <1>3. Replied' = Replied
    BY <1>1, <1>2 DEF Replied
  <1>4. ASSUME NEW i \in Nat \ {0}, Reported(i) PROVE Reported(i)'
    <2>1. i <= Len(tables)
      BY <1>4, Zenon DEF Reported
    <2>2. tables'[i] = tables[i] /\ i <= Len(tables')
      <3>1. tables \in Seq(Tables) /\ Unfilled \in Tables
        BY Zenon DEF SessionTypeOK, Unfilled, Tables
      <3>2. Len(tables') = Len(tables) + 1 /\ tables'[i] = tables[i]
        BY <1>1, <2>1, <3>1, AppendProperties
      <3>3. QED
        BY <2>1, <3>2, Sizes
    <2>3. QED
      BY <1>1, <1>3, <1>4, <2>2, Zenon DEF Reported
  <1>5. QED
    BY <1>1, <1>4, MemberNumbers, Zenon DEF ReportInv

LEMMA RecvBatchReport ==
  ASSUME SessionTypeOK, QueueInv, ReportInv, session' = session, RecvBatch
  PROVE  ReportInv'
  <1> DEFINE r == Head(answers_out)
             i0 == Head(client.recv_queue)
  <1>1. /\ answers_out # <<>> /\ answers_out' = Tail(answers_out)
        /\ tables' = [tables EXCEPT ![i0] = [id |-> r.id, code |-> r.code]]
        /\ UNCHANGED <<server, env, delivered, spilled>>
    BY Zenon DEF RecvBatch
  <1>2. /\ Len(answers_out) >= 1 /\ Len(answers_out') = Len(answers_out) - 1
        /\ r = answers_out[1] /\ \A k \in 1..Len(answers_out') : answers_out'[k] = answers_out[k + 1]
    BY <1>1 DEF SessionTypeOK
  <1>3. Filled' = Filled + 1
    BY RecvBatchType
  <1>4. Replied' = Replied
    <2>1. Len(answers_out') = Len(answers_out) - 1
      BY <1>2
    <2>2. QED
      BY <1>3, <2>1, Sizes, SMTT(30) DEF Replied
  <1>5. Len(tables') = Len(tables) /\ tables \in Seq(Tables)
    BY <1>1 DEF SessionTypeOK
  <1>6. ASSUME NEW i \in Nat \ {0}, Reported(i) PROVE Reported(i)'
    <2>1. i <= Len(tables) /\ i \in DOMAIN tables
      BY <1>5, <1>6 DEF Reported
    <2>2. tables'[i].id = i => tables'[i].code = "250"
      <3>1. CASE i = i0
        <4>1. tables'[i] = [id |-> r.id, code |-> r.code]
          BY <1>1, <2>1, <3>1, Zenon
        <4>2. r.id = i => r.code = "250"
          BY <1>2, <1>6 DEF Reported
        <4>3. QED
          BY <4>1, <4>2
      <3>2. CASE i # i0
        BY <1>1, <1>6, <2>1, <3>2, Zenon DEF Reported
      <3>3. QED
        BY <3>1, <3>2, Zenon
    <2>3. \A k \in 1..Len(answers_out') : answers_out'[k].id = i => answers_out'[k].code = "250"
      <3> SUFFICES ASSUME NEW k \in 1..Len(answers_out'), answers_out'[k].id = i
                   PROVE  answers_out'[k].code = "250"
        BY Zenon
      <3>1. k + 1 \in 1..Len(answers_out) /\ answers_out'[k] = answers_out[k + 1]
        BY <1>2, Sizes
      <3>2. QED
        BY <1>6, <3>1, Zenon DEF Reported
    <2>4. QED
      BY <1>1, <1>4, <1>5, <1>6, <2>2, <2>3, Zenon DEF Reported
  <1> HIDE DEF r, i0
  <1>7. QED
    BY <1>1, <1>6, MemberNumbers, Zenon DEF ReportInv

LEMMA MovesReport ==
  ASSUME SessionTypeOK, ReportInv, ClientFails \/ ClientCloses \/ Handshake \/ ServerSeesEnd
  PROVE  ReportInv'
  <1>1. UNCHANGED <<tables, answers_out, env, delivered, spilled>>
    BY DEF ClientFails, ClientCloses, Handshake, ServerSeesEnd
  <1>2. Queue' = Queue /\ (server'.at # "ended" => server.at # "ended")
    BY DEF ClientFails, ClientCloses, Handshake, ServerSeesEnd, SessionTypeOK, ClientStates,
           ServerStates, Queue
  <1>3. \A i : Reported(i) => Reported(i)'
    BY <1>1, <1>2, Zenon DEF Reported, Replied, Filled
  <1>4. QED
    BY <1>1, <1>3 DEF ReportInv

LEMMA RepliesReport ==
  ASSUME SessionTypeOK, OrderInv, ReportInv, Banner \/ ServerFails
  PROVE  ReportInv'
  <1> SUFFICES ASSUME ~spilled PROVE ReportInv'
    BY DEF Banner, ServerFails, ReportInv
  <1>1. UNCHANGED <<client, tables, env, delivered, spilled>> /\ server.at # "ended"
    BY DEF Banner, ServerFails
  <1>2. PICK r \in Replies : answers_out' = Append(answers_out, r) /\ (r.id = 0 \/ r.id = Replied + 1)
    <2>1. CASE Banner
      <3>1. Greeting
        BY <2>1 DEF Banner, OrderInv, Exchange
      <3>2. Replied = 0
        BY <3>1, Sizes DEF Greeting
      <3>3. Answer(1, "220") \in Replies /\ Answer(1, "220").id = 1
        BY DEF Answer, Replies, ReplyCodes
      <3>4. QED
        BY <2>1, <3>2, <3>3 DEF Banner
    <2>2. CASE ServerFails
      <3>1. Answer(0, "421") \in Replies /\ Answer(0, "421").id = 0
        BY DEF Answer, Replies, ReplyCodes
      <3>2. QED
        BY <2>2, <3>1, Zenon DEF ServerFails
    <2>3. QED
      BY <2>1, <2>2
  <1>3. \A i \in Nat \ {0} : Reported(i) => Reported(i)'
    BY <1>1, <1>2, ReportedAppended, Zenon
  <1>4. QED
    BY <1>1, <1>3, MemberNumbers, Zenon DEF ReportInv


\* The server reads the command that its next reply belongs to.
LEMMA NextCommand ==
  ASSUME SessionTypeOK, OrderInv, ~spilled, server.at \in {"command", "data"}, commands # <<>>
  PROVE  Head(commands) \in Lines /\ Head(commands).id = Replied + 1 /\ Replied + 1 <= Len(tables)
  <1>1. Head(commands) = commands[1] /\ Head(commands) \in Lines /\ Len(commands) >= 1
    BY DEF SessionTypeOK
  <1>2. CASE server.at = "command"
    <2>1. Commanding
      BY <1>2, Zenon DEF OrderInv, Exchange
    <2>2. Head(commands).id = Replied + 1
      BY <1>1, <2>1, Sizes, SMTT(30) DEF Commanding, Numbered
    <2>3. Len(answers_out) + Len(commands) + Len(Buffer) = Len(Queue)
      BY <2>1 DEF Commanding
    <2>4. Len(commands) >= 1
      BY <1>1
    <2>5. Replied + 1 <= Len(tables)
      BY <2>3, <2>4, Sizes
    <2>6. QED
      BY <1>1, <2>2, <2>5
  <1>3. CASE server.at = "data"
    <2>1. Sent
      BY <1>3 DEF OrderInv, Exchange, Accepting, Accepted
    <2>2. Head(commands).id = Len(tables)
      BY <2>1 DEF Sent
    <2>3. answers_out = <<>> /\ Len(Queue) = 1
      BY <2>1 DEF Sent
    <2>4. Replied + 1 = Len(tables)
      BY <2>3, Sizes
    <2>5. QED
      BY <1>1, <2>2, <2>4, Sizes, SMTT(30)
  <1>4. QED
    BY <1>2, <1>3

LEMMA CommandReport ==
  ASSUME SessionTypeOK, QueueInv, OrderInv, EnvelopeInv, ReportInv, NEW accept \in BOOLEAN,
         Command(accept)
  PROVE  ReportInv'
  <1> SUFFICES ASSUME ~spilled PROVE ReportInv'
    BY DEF Command, ReportInv
  <1> DEFINE c == Head(commands)
             o == Handled(c, accept)
             r == Answer(c.id, o.code)
  <1>1. /\ server.at = "command" /\ env' = o.env /\ answers_out' = Append(answers_out, r)
        /\ UNCHANGED <<client, tables, delivered, spilled>> /\ commands # <<>>
    BY Zenon DEF Command
  <1>2. c \in Lines /\ c.id = Replied + 1 /\ Replied + 1 <= Len(tables) /\ c.id \in Nat \ {0}
    BY <1>1, NextCommand, Zenon DEF Lines
  <1>3. r \in Replies /\ r.id = c.id /\ r.code = o.code
    <2>1. o.code \in ReplyCodes
      BY <1>1, <1>2, HandledType, Zenon
    <2>2. QED
      BY <1>2, <2>1 DEF Answer, Replies
  <1>4. \/ Members(env') \subseteq Members(env)
        \/ Members(env') \subseteq Members(env) \cup {c.id} /\ o.code = "250"
    BY <1>1, <1>2, HandledEnvelope, Zenon
  <1> HIDE DEF r, o, c
  <1>5. \A i \in Nat \ {0} : Reported(i) => Reported(i)'
    BY <1>1, <1>2, <1>3, ReportedAppended, Zenon
  <1>6. ASSUME o.code = "250", NEW i \in Nat \ {0}, i = c.id PROVE Reported(i)'
    <2>1. Filled' = Filled
      BY <1>1, Zenon DEF Filled, Queue
    <2>2. Replied' = Replied + 1
      BY <1>1, <1>3, <2>1, AnswerAppended, Sizes DEF Replied
    <2>3. tables[i].id = 0
      <3>1. i \in 1..Len(tables) /\ i > Filled
        BY <1>2, <1>6, Sizes
      <3>2. tables[i] = Unfilled
        BY <3>1 DEF QueueInv
      <3>3. QED
        BY <3>2 DEF Unfilled
    <2>4. ASSUME NEW k \in 1..Len(answers_out) PROVE answers_out[k].id # i
      <3>1. answers_out[k].id = Filled + k
        BY <1>1 DEF OrderInv, AnswersInOrder
      <3>2. QED
        BY <1>2, <1>6, <3>1, Sizes, SMTT(30)
    <2>5. \A k \in 1..Len(answers_out') : answers_out'[k].id = i => answers_out'[k].code = "250"
      BY <1>1, <1>3, <1>6, <2>4, AnswerAppended, ZenonT(30)
    <2>6. i <= Len(tables) /\ i <= Replied'
      BY <1>2, <1>6, <2>2, Sizes
    <2>7. QED
      BY <1>1, <1>2, <2>3, <2>5, <2>6, Zenon DEF Reported
  <1>7. \A i \in Members(env') : Reported(i)'
    BY <1>2, <1>4, <1>5, <1>6, MemberNumbers, Zenon DEF ReportInv
  <1>8. QED
    BY <1>1, <1>5, <1>7, MemberNumbers, Zenon DEF ReportInv

LEMMA GetMessageDataReport ==
  ASSUME SessionTypeOK, OrderInv, ReportInv, NEW accept \in BOOLEAN, NEW big \in BOOLEAN,
         NEW cut \in BOOLEAN, GetMessageData(accept, big, cut)
  PROVE  ReportInv'
  <1> SUFFICES ASSUME ~spilled PROVE ReportInv'
    BY Zenon DEF GetMessageData, ReportInv, SessionTypeOK
  <1> DEFINE r == Answer(Head(commands).id, IF accept THEN "250" ELSE "550")
  <1>1. /\ server.at = "data" /\ commands # <<>> /\ answers_out' = Append(answers_out, r)
        /\ env' = NoEnvelope /\ UNCHANGED <<client, tables>>
        /\ delivered' = IF big THEN delivered ELSE Append(delivered, env)
    BY Zenon DEF GetMessageData
  <1>2. r \in Replies /\ r.id = Replied + 1
    BY <1>1, NextCommand DEF Answer, Replies, ReplyCodes, Lines
  <1> HIDE DEF r
  <1>3. \A i \in Nat \ {0} : Reported(i) => Reported(i)'
    BY <1>1, <1>2, ReportedAppended, Zenon
  <1>4. Members(env') = {}
    BY <1>1 DEF NoEnvelope, Members
  <1>5. ASSUME NEW k \in 1..Len(delivered'), NEW i \in Members(delivered'[k]) PROVE Reported(i)'
    <2>1. CASE big
      BY <1>1, <1>3, <1>5, <2>1, MemberNumbers, Zenon DEF ReportInv
    <2>2. CASE ~big
      <3>1. delivered \in Seq(Envelopes) /\ env \in Envelopes /\ delivered' = Append(delivered, env)
        BY <1>1, <2>2, Zenon DEF SessionTypeOK
      <3>2. (k \in 1..Len(delivered) /\ delivered'[k] = delivered[k]) \/ delivered'[k] = env
        BY <3>1
      <3>3. QED
        BY <1>3, <1>5, <3>2, MemberNumbers, Zenon DEF ReportInv
    <2>3. QED
      BY <2>1, <2>2, Zenon
  <1>6. QED
    BY <1>4, <1>5, Zenon DEF ReportInv


-----------------------------------------------------------------------------
SessionInv == SessionTypeOK /\ QueueInv /\ OrderInv /\ EnvelopeInv /\ ReportInv

LEMMA SessionInitInv == SessionInit => SessionInv
  <1> SUFFICES ASSUME SessionInit PROVE SessionInv
    OBVIOUS
  <1>1. SessionTypeOK /\ QueueInv
    BY SessionInitType, Zenon
  <1>2. /\ answers_out = <<>> /\ commands = <<>> /\ tables = <<Unfilled>> /\ delivered = <<>>
        /\ env = NoEnvelope
    BY Zenon DEF SessionInit, SessionStart
  <1>3. /\ server.at = "banner" /\ ~server.have_mailfrom /\ ~server.have_rcptto
        /\ client.at = "batch" /\ Queue = <<1>> /\ Buffer = <<>> /\ ~client.data
    BY DEF SessionInit, SessionStart, Queue, Buffer
  <1>4. Greeting
    BY <1>2, <1>3, Zenon DEF Greeting
  <1>5. OrderInv
    <2>1. AnswersInOrder
      BY <1>2 DEF AnswersInOrder
    <2>2. TablesInOrder
      BY <1>2 DEF TablesInOrder, Unfilled
    <2>3. QED
      BY <1>3, <1>4, <2>1, <2>2, Zenon DEF OrderInv, Exchange
  <1>6. EnvelopeInv /\ ReportInv
    BY <1>2, <1>3 DEF EnvelopeInv, ReportInv, Members, NoEnvelope
  <1>7. QED
    BY <1>1, <1>5, <1>6 DEF SessionInv

LEMMA SessionStep == SessionInv /\ [SessionNext]_sessionVars => SessionInv'
  <1> SUFFICES ASSUME SessionInv, [SessionNext]_sessionVars PROVE SessionInv'
    OBVIOUS
  <1> USE DEF SessionInv
  <1>1. CASE UNCHANGED sessionVars
    <2>1. /\ SessionTypeOK' /\ EnvelopeInv' /\ QueueInv'
      BY <1>1, Zenon DEF sessionVars, SessionTypeOK, EnvelopeInv, QueueInv, Queue, Filled
    <2>2. OrderInv'
      BY <1>1, Zenon DEF sessionVars, OrderInv, AnswersInOrder, TablesInOrder, Exchange, Greeting,
                  Commanding, Accepting, Accepted, Sent, DataIsLast, Filled, Replied, Queue, Buffer
    <2>3. ReportInv'
      <3>1. \A i : Reported(i) => Reported(i)'
        BY <1>1, Zenon DEF sessionVars, Reported, Replied, Filled, Queue
      <3>2. QED
        BY <1>1, <3>1 DEF sessionVars, ReportInv
    <2>4. QED
      BY <2>1, <2>2, <2>3, Zenon
  <1>2. CASE SessionNext
    <2>1. session' = session
      BY <1>2 DEF SessionNext
    <2>2. ASSUME NEW call \in session.calls, ClientCall(call) PROVE SessionInv'
      <3>1. call \in Methods
        BY SessionCalls, Zenon
      <3>2. QED
        BY <2>1, <2>2, <3>1, ClientCallType, ClientCallOrder, OthersEnvelope, ClientCallReport, Zenon
    <2>3. CASE RecvBatch
      BY <2>1, <2>3, RecvBatchType, RecvBatchOrder, OthersEnvelope, RecvBatchReport, Zenon
    <2>4. CASE ClientFails \/ ClientCloses \/ Handshake
      BY <2>1, <2>4, ClientMovesType, ClientMovesOrder, OthersEnvelope, MovesReport, Zenon
    <2>5. CASE Banner
      BY <2>1, <2>5, ServerMovesType, BannerOrder, OthersEnvelope, RepliesReport, Zenon
    <2>6. CASE ServerFails
      BY <2>1, <2>6, ServerMovesType, ServerEndsOrder, OthersEnvelope, RepliesReport, Zenon
    <2>7. CASE ServerSeesEnd
      BY <2>1, <2>7, ServerMovesType, ServerEndsOrder, OthersEnvelope, MovesReport, Zenon
    <2>8. ASSUME NEW accept \in BOOLEAN, Command(accept) PROVE SessionInv'
      BY <2>1, <2>8, CommandType, CommandOrder, CommandEnvelope, CommandReport, Zenon
    <2>9. ASSUME NEW accept \in BOOLEAN, NEW big \in BOOLEAN, NEW cut \in BOOLEAN,
                 GetMessageData(accept, big, cut)
          PROVE  SessionInv'
      BY Zenon, <2>1, <2>9, GetMessageDataType, GetMessageDataOrder, GetMessageDataEnvelope,
         GetMessageDataReport
    <2>10. QED
      <3> HIDE DEF SessionInv
      <3>1. SessionInv
        OBVIOUS
      <3>2. Verdicts \subseteq BOOLEAN
        BY SessionCalls DEF SessionInv
      <3>3. QED
        BY <1>2, <2>2, <2>3, <2>4, <2>5, <2>6, <2>7, <2>8, <2>9, <3>2
           DEF SessionNext, ClientRuns, ServerRuns
  <1>3. QED
    BY <1>1, <1>2

LEMMA SessionInductive == SessionSpec => []SessionInv
  <1>1. SessionInit => SessionInv
    BY SessionInitInv
  <1>2. SessionInv /\ [SessionNext]_sessionVars => SessionInv'
    BY SessionStep
  <1>3. QED
    BY <1>1, <1>2, PTL DEF SessionSpec

(***************************************************************************)
(* The fields of the client and of the server, the reply tables and what is*)
(* on its way between them keep their types, for any program that calls the*)
(* client's methods.                                                       *)
(***************************************************************************)
THEOREM SessionTypeCorrect == SessionSpec => []SessionTypeOK
  <1>1. SessionInv => SessionTypeOK
    BY Zenon DEF SessionInv
  <1>2. QED
    BY <1>1, SessionInductive, PTL

(***************************************************************************)
(* recv_batch() fills every reply table with the reply to its own command, *)
(* or with the 421 that ends the session, however many commands were sent  *)
(* ahead; and between two calls exactly the tables of recv_queue are empty.*)
(***************************************************************************)
THEOREM SessionTablesPaired == SessionSpec => []TablesPaired
  <1>1. SessionInv => TablesPaired
    <2> SUFFICES ASSUME SessionInv, ~spilled PROVE TablesPaired
      BY Zenon DEF TablesPaired
    <2>1. DOMAIN tables = 1..Len(tables) /\ DOMAIN client.recv_queue = 1..Len(Queue)
      BY Fields DEF SessionInv, SessionTypeOK, Queue
    <2>2. \A i \in DOMAIN tables : tables[i].code # "nil" => tables[i].id = i \/ tables[i].code = "421"
      BY <2>1, Zenon DEF SessionInv, OrderInv, TablesInOrder
    <2>3. ASSUME NEW i \in DOMAIN tables
          PROVE  tables[i].code = "nil" <=> \E k \in DOMAIN client.recv_queue : client.recv_queue[k] = i
      <3>1. tables[i].code = "nil" <=> i > Filled
        BY <2>1 DEF SessionInv, QueueInv, Unfilled
      <3>2. i > Filled => i - Filled \in 1..Len(Queue) /\ Queue[i - Filled] = i
        BY <2>1, Sizes, SMTT(30) DEF SessionInv, QueueInv
      <3>3. ASSUME NEW k \in 1..Len(Queue), Queue[k] = i PROVE i > Filled
        BY <2>1, <3>3, Sizes DEF SessionInv, QueueInv
      <3>4. QED
        BY <2>1, <3>1, <3>2, <3>3, Zenon DEF Queue
    <2>4. QED
      BY <2>2, <2>3, Zenon DEF TablesPaired
  <1>2. QED
    BY <1>1, SessionInductive, PTL

(***************************************************************************)
(* HAVE_DATA is called with a sender and a recipient, and whatever reply   *)
(* their commands have got by then or get later is a 250.                  *)
(***************************************************************************)
THEOREM SessionEnvelopesAccepted == SessionSpec => []EnvelopesAccepted
  <1>1. SessionInv => EnvelopesAccepted
    <2> SUFFICES ASSUME SessionInv, NEW k \in DOMAIN delivered
                 PROVE  /\ delivered[k].mail # 0 /\ delivered[k].rcpts # {}
                        /\ \A i \in delivered[k].rcpts \cup {delivered[k].mail} :
                               ~spilled /\ tables[i].id = i => tables[i].code = "250"
      BY Zenon DEF EnvelopesAccepted
    <2>1. k \in 1..Len(delivered) /\ delivered[k] \in Envelopes
      BY DEF SessionInv, SessionTypeOK
    <2>2. delivered[k].mail # 0 /\ delivered[k].rcpts # {}
      BY <2>1, Zenon DEF SessionInv, EnvelopeInv
    <2>3. \A i \in Members(delivered[k]) : ~spilled /\ tables[i].id = i => tables[i].code = "250"
      BY <2>1 DEF SessionInv, ReportInv, Reported
    <2>4. QED
      BY <2>1, <2>2, <2>3, Zenon DEF Members, Envelopes
  <1>2. QED
    BY <1>1, SessionInductive, PTL
=============================================================================
