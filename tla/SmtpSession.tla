----------------------------- MODULE SmtpSession -----------------------------
(***************************************************************************)
(* smtp/client.lua and smtp/server.lua: a session between the client and   *)
(* the server of ratchet, at the granularity of commands and replies.      *)
(*                                                                         *)
(* The program that uses the client may call anything the documentation    *)
(* allows; the handlers of the server may accept or refuse anything.       *)
(* Every call of the client has a number, which is also that of its reply  *)
(* table; commands and replies carry it to say what they belong to.  What  *)
(* the streams do to them is in SmtpIo.                                    *)
(***************************************************************************)
EXTENDS Integers, Sequences

CONSTANT
    Sessions       \* sets of calls a program makes, how many of them, the server's
                   \* extensions, and whether its handlers may refuse

\* The methods of the client; get_banner() is the first call of every session.
Methods == {"EHLO", "HELO", "STARTTLS", "MAIL", "RCPT", "DATA", "send_data", "send_empty_data",
            "RSET", "CUSTOM", "QUIT"}

ASSUME SessionAssumption ==
    Sessions \subseteq [calls : SUBSET Methods, max : Nat \ {0}, extensions : SUBSET STRING,
                        refuses : BOOLEAN]

VARIABLES
    session,       \* one of Sessions, fixed
    client,        \* what it does, recv_queue, send_buffer, the PIPELINING it knows of
    tables,        \* the reply tables of the calls, in order
    commands,      \* on their way to the server
    answers_out,   \* on their way to the client
    server,        \* the state of smtp.server, and where its loop is
    env,           \* what the handlers have accepted since it was last discarded
    delivered,     \* the envelopes HAVE_DATA was called with
    spilled        \* the rest of a message was left in the stream

sessionVars == <<session, client, tables, commands, answers_out, server, env, delivered, spilled>>

NoEnvelope == [mail |-> 0, rcpts |-> {}]
Unfilled == [id |-> 0, code |-> "nil"]

\* Both sides are new, the client is at the given place of get_banner().
SessionStart(at) ==
    /\ session \in Sessions
    /\ client = [at |-> at, call |-> "BANNER", recv_queue |-> <<1>>, send_buffer |-> <<>>,
                 pipelining |-> FALSE, data |-> FALSE]
    /\ tables = <<Unfilled>>
    /\ commands = <<>> /\ answers_out = <<>>
    /\ server = [at |-> "banner", ehlo_as |-> FALSE, have_mailfrom |-> FALSE, have_rcptto |-> FALSE,
                 extensions |-> session.extensions]
    /\ env = NoEnvelope /\ delivered = <<>> /\ spilled = FALSE
SessionInit == SessionStart("batch")

------------------------------------------------------------------------------
\* Mutant: send_empty_data() does not send the end of the data.
CommandsOfNoEnd(call, id) ==
    CASE call = "send_data" -> <<[cmd |-> "text", id |-> id], [cmd |-> "end", id |-> id]>>
      [] call = "send_empty_data" -> <<>>
      [] OTHER -> <<[cmd |-> call, id |-> id]>>
\* What a call puts into send_buffer.
CommandsOf(call, id) ==
    CASE call = "send_data" -> <<[cmd |-> "text", id |-> id], [cmd |-> "end", id |-> id]>>
      [] call = "send_empty_data" -> <<[cmd |-> "end", id |-> id]>>
      [] OTHER -> <<[cmd |-> call, id |-> id]>>

\* Mutant: mailfrom() and rcptto() forget to enter their table into the queue.
EnterPipelined(call, id) ==
    IF call \in {"MAIL", "RCPT"} /\ client.pipelining THEN client.recv_queue
    ELSE Append(client.recv_queue, id)
Enter(call, id) == Append(client.recv_queue, id)

\* A method of the client: its table enters recv_queue, its command the buffer;
\* mailfrom() and rcptto() return at once if the server has PIPELINING, the
\* others go on in recv_batch(), which flushes first.  After a 354 the program
\* sends data.
ClientCall(call) ==
    LET id == Len(tables) + 1
        out == client.send_buffer \o CommandsOf(call, id)
        waits == ~(call \in {"MAIL", "RCPT"} /\ client.pipelining)
    IN /\ client.at = "idle" /\ id <= session.max
       /\ client.data <=> call \in {"send_data", "send_empty_data"}
       /\ tables' = Append(tables, Unfilled)
       /\ client' = [client EXCEPT !.at = IF waits THEN "batch" ELSE "idle", !.call = call,
                                   !.recv_queue = Enter(call, id), !.data = FALSE,
                                   !.send_buffer = IF waits THEN <<>> ELSE out]
       /\ commands' = IF waits THEN commands \o out ELSE commands
       /\ UNCHANGED <<answers_out, server, env, delivered, spilled>>

\* recv_batch(): the first table of the queue is filled; after the last one the
\* call returns.  ehlo() then takes the extensions over, quit() closes, and the
\* program encrypts after a 220 to STARTTLS.
RecvBatch ==
    LET r == Head(answers_out)
        rest == Tail(client.recv_queue)
        after == CASE rest # <<>> -> "batch"
                   [] rest = <<>> /\ client.call = "QUIT" -> "closed"
                   [] rest = <<>> /\ client.call = "STARTTLS" /\ r.code = "220" -> "tls"
                   [] OTHER -> "idle"
    IN /\ client.at = "batch" /\ answers_out # <<>>
       /\ answers_out' = Tail(answers_out)
       /\ tables' = [tables EXCEPT ![Head(client.recv_queue)] = [id |-> r.id, code |-> r.code]]
       /\ client' = [client EXCEPT !.at = after, !.recv_queue = rest,
                                   !.data = rest = <<>> /\ client.call = "DATA" /\ r.code = "354",
                                   !.pipelining = IF rest = <<>> /\ client.call = "EHLO" /\ r.code = "250"
                                                  THEN r.offers ELSE @]
       /\ UNCHANGED <<commands, server, env, delivered, spilled>>

\* The connection ends while the client waits: ECONNCLOSED.  A program may also
\* close the client between two calls.
ClientFails ==
    /\ client.at \in {"batch", "tls"} /\ answers_out = <<>> /\ server.at = "ended"
    /\ client' = [client EXCEPT !.at = "failed"]
    /\ UNCHANGED <<tables, commands, answers_out, server, env, delivered, spilled>>
ClientCloses ==
    /\ client.at \in {"idle", "tls"}
    /\ client' = [client EXCEPT !.at = "closed"]
    /\ UNCHANGED <<tables, commands, answers_out, server, env, delivered, spilled>>

------------------------------------------------------------------------------
Answer(id, code) == [id |-> id, code |-> code, offers |-> "PIPELINING" \in server.extensions]
Greeted(accept) ==
    IF accept THEN [server EXCEPT !.have_mailfrom = FALSE, !.have_rcptto = FALSE, !.ehlo_as = TRUE]
    ELSE server

\* What each command does to the server, and its reply: s, code, and the
\* envelope the handlers hold afterwards.
Outcome(s, code, e) == [s |-> s, code |-> code, env |-> e]
BadSequence == Outcome(server, "503", env)
Ehlo(accept) == Outcome(Greeted(accept), IF accept THEN "250" ELSE "550", IF accept THEN NoEnvelope ELSE env)
Helo(accept) ==
    LET o == Ehlo(accept)
    IN IF accept THEN [o EXCEPT !.s.extensions = {}] ELSE o
StartTls(accept) ==
    CASE "STARTTLS" \notin server.extensions -> Outcome(server, "500", env)
      [] "STARTTLS" \in server.extensions /\ ~server.ehlo_as -> BadSequence
      [] OTHER -> Outcome(IF accept THEN [server EXCEPT !.at = "tls", !.ehlo_as = FALSE,
                                                        !.extensions = @ \ {"STARTTLS"}] ELSE server,
                          IF accept THEN "220" ELSE "550", env)
Mail(id, accept) ==
    IF ~server.ehlo_as \/ server.have_mailfrom THEN BadSequence
    ELSE Outcome([server EXCEPT !.have_mailfrom = accept], IF accept THEN "250" ELSE "550",
                 IF accept THEN [mail |-> id, rcpts |-> {}] ELSE env)
Rcpt(id, accept) ==
    IF ~server.have_mailfrom THEN BadSequence
    ELSE Outcome([server EXCEPT !.have_rcptto = @ \/ accept], IF accept THEN "250" ELSE "550",
                 IF accept THEN [env EXCEPT !.rcpts = @ \cup {id}] ELSE env)
Data(accept) ==
    IF ~server.have_mailfrom \/ ~server.have_rcptto THEN BadSequence
    ELSE Outcome(IF accept THEN [server EXCEPT !.at = "data"] ELSE server, IF accept THEN "354" ELSE "550", env)
\* Mutant: the recipients stay.
RsetPartly(accept) ==
    Outcome(IF accept THEN [server EXCEPT !.have_mailfrom = FALSE] ELSE server,
            IF accept THEN "250" ELSE "550", IF accept THEN NoEnvelope ELSE env)
Rset(accept) ==
    Outcome(IF accept THEN [server EXCEPT !.have_mailfrom = FALSE, !.have_rcptto = FALSE] ELSE server,
            IF accept THEN "250" ELSE "550", IF accept THEN NoEnvelope ELSE env)

\* One turn of the loop of handle_propagate_errors(): a command, its handler's
\* verdict, the reply.  The loop ends with QUIT, whatever its handler says; a
\* line that is no command, as what is left of a message, is unknown.
Handled(c, accept) ==
    CASE c.cmd = "EHLO" -> Ehlo(accept)
      [] c.cmd = "HELO" -> Helo(accept)
      [] c.cmd = "STARTTLS" -> StartTls(accept)
      [] c.cmd = "MAIL" -> Mail(c.id, accept)
      [] c.cmd = "RCPT" -> Rcpt(c.id, accept)
      [] c.cmd = "DATA" -> Data(accept)
      [] c.cmd = "RSET" -> Rset(accept)
      [] c.cmd = "QUIT" -> Outcome([server EXCEPT !.at = "ended"], "221", env)
      [] c.cmd = "CUSTOM" -> Outcome(server, IF accept THEN "250" ELSE "550", env)
      [] OTHER -> Outcome(server, "500", env)
Banner ==
    /\ server.at = "banner"
    /\ server' = [server EXCEPT !.at = "command"]
    /\ answers_out' = Append(answers_out, Answer(1, "220"))
    /\ UNCHANGED <<client, tables, commands, env, delivered, spilled>>
Command(accept) ==
    LET c == Head(commands)
        o == Handled(c, accept)
    IN /\ server.at = "command" /\ commands # <<>>
       /\ commands' = Tail(commands)
       /\ server' = o.s /\ env' = o.env
       /\ answers_out' = Append(answers_out, Answer(c.id, o.code))
       /\ UNCHANGED <<client, tables, delivered, spilled>>

\* get_message_data(): the data up to its end; the transaction is over whatever
\* HAVE_DATA replies.  Beyond the limit the reader stops with what it has
\* received, and what has not arrived yet is left to be read as commands.
GetMessageData(accept, big, cut) ==
    LET c == Head(commands)
        used == IF c.cmd = "end" \/ cut THEN 1 ELSE 2
    IN /\ server.at = "data" /\ commands # <<>>
       /\ big => "SIZE" \in server.extensions /\ c.cmd = "text"
       /\ cut => big
       /\ commands' = SubSeq(commands, used + 1, Len(commands))
       /\ delivered' = IF big THEN delivered ELSE Append(delivered, env)
       /\ server' = [server EXCEPT !.at = "command", !.have_mailfrom = FALSE, !.have_rcptto = FALSE]
       /\ env' = NoEnvelope
       /\ answers_out' = Append(answers_out, Answer(c.id, IF accept THEN "250" ELSE "550"))
       /\ spilled' = (spilled \/ cut)
       /\ UNCHANGED <<client, tables>>

\* encrypt_socket(), with the client's handshake; a handshake that fails ends
\* the session without a reply.
Handshake ==
    /\ server.at = "tls" /\ client.at = "tls"
    /\ \/ server' = [server EXCEPT !.at = "command"] /\ client' = [client EXCEPT !.at = "idle"]
       \/ server' = [server EXCEPT !.at = "ended"] /\ client' = [client EXCEPT !.at = "failed"]
    /\ UNCHANGED <<tables, commands, answers_out, env, delivered, spilled>>

\* handle(): a receive that times out, or an error in a handler, sends a 421 and
\* closes; the end of the client's stream only closes.
ServerFails ==
    /\ server.at \in {"command", "data"}
    /\ server' = [server EXCEPT !.at = "ended"]
    /\ answers_out' = Append(answers_out, Answer(0, "421"))
    /\ UNCHANGED <<client, tables, commands, env, delivered, spilled>>
ServerSeesEnd ==
    /\ server.at \in {"command", "data", "tls"} /\ commands = <<>> /\ client.at \in {"closed", "failed"}
    /\ server' = [server EXCEPT !.at = "ended"]
    /\ UNCHANGED <<client, tables, commands, answers_out, env, delivered, spilled>>

Verdicts == IF session.refuses THEN BOOLEAN ELSE {TRUE}
ServerRuns ==
    \/ Banner \/ ServerSeesEnd
    \/ \E accept \in Verdicts : Command(accept)
    \/ \E accept \in Verdicts, big, cut \in BOOLEAN : GetMessageData(accept, big, cut)
ClientRuns == RecvBatch \/ ClientFails
SessionNext ==
    /\ UNCHANGED session
    /\ \/ \E call \in session.calls : ClientCall(call)
       \/ ClientRuns \/ ClientCloses \/ ServerRuns \/ Handshake \/ ServerFails
SessionSpec == SessionInit /\ [][SessionNext]_sessionVars
SessionFairness ==
    /\ WF_sessionVars(ServerRuns /\ UNCHANGED session)
    /\ WF_sessionVars(ClientRuns /\ UNCHANGED session)

------------------------------------------------------------------------------
ReplyCodes == {"220", "221", "250", "354", "421", "500", "503", "550"}
Lines == [cmd : Methods \cup {"text", "end"}, id : Nat \ {0}]
Replies == [id : Nat, code : ReplyCodes, offers : BOOLEAN]
Tables == [id : Nat, code : ReplyCodes \cup {"nil"}]
Envelopes == [mail : Nat, rcpts : SUBSET (Nat \ {0})]
ClientStates ==
    [at : {"idle", "batch", "tls", "closed", "failed"}, call : Methods \cup {"BANNER"},
     recv_queue : Seq(Nat), send_buffer : Seq(Lines), pipelining : BOOLEAN, data : BOOLEAN]
ServerStates ==
    [at : {"banner", "command", "data", "tls", "ended"}, ehlo_as : BOOLEAN, have_mailfrom : BOOLEAN,
     have_rcptto : BOOLEAN, extensions : SUBSET STRING]

SessionTypeOK ==
    /\ session \in Sessions
    /\ client \in ClientStates /\ server \in ServerStates
    /\ tables \in Seq(Tables) /\ commands \in Seq(Lines) /\ answers_out \in Seq(Replies)
    /\ env \in Envelopes /\ delivered \in Seq(Envelopes) /\ spilled \in BOOLEAN

\* "Its reply table as well as those returned by mailfrom() and rcptto() will be
\* populated": every table holds the reply to its own command, or the 421 with
\* which the server gave up, however many commands were sent ahead; and a client
\* between two calls of which the last did not pipeline has them all.  What the
\* reader leaves of a message beyond the limit is answered as commands, and
\* spoils this.
TablesPaired ==
    ~spilled =>
        /\ \A i \in DOMAIN tables :
               tables[i].code # "nil" => tables[i].id = i \/ tables[i].code = "421"
        /\ client.at \in {"idle", "tls"} =>
               \A i \in DOMAIN tables : tables[i].code = "nil" <=> \E k \in DOMAIN client.recv_queue : client.recv_queue[k] = i

\* HAVE_DATA is called with a sender and a recipient, both accepted since the
\* envelope was last discarded and both reported to the client as accepted.
EnvelopesAccepted ==
    \A k \in DOMAIN delivered :
        /\ delivered[k].mail # 0 /\ delivered[k].rcpts # {}
        /\ \A i \in delivered[k].rcpts \cup {delivered[k].mail} :
               ~spilled /\ tables[i].id = i => tables[i].code = "250"

\* Every call of the client returns or fails: neither side waits for the other for
\* ever, in recv_batch() and in the server's loop.  Handlers of custom commands
\* return a reply here; custom_command() sends none for one that returns nothing.
ClientCallsEnd == client.at = "batch" ~> client.at # "batch"
=============================================================================
