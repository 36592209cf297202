---------------------------- MODULE LuaLibraries ----------------------------
(***************************************************************************)
(* The libraries of ratchet that are written in Lua, except the socket     *)
(* pad: the local and the socket bus, SMTP and HTTP.  They share no state: *)
(* a behaviour is one of one part, the others stay as they are.            *)
(***************************************************************************)
EXTENDS LocalBus, SocketBus, SmtpIo, SmtpSession, Http

VARIABLE part       \* the part whose steps are taken, fixed

smtpIo == <<replyVars, dataVars, recv_buffer>>
luaVars == <<part, vars, socketBusVars, smtpIo, sessionVars, httpVars>>

RepliesIdle == replies = <<>> /\ stream = <<>> /\ reading = <<>> /\ results = <<>> /\ cuts = {}
DataIdle ==
    /\ message = <<>> /\ iter_size = 8 /\ sent = <<>> /\ reader = NewReader(0)
    /\ sender = [i |-> 1, last_part |-> <<>>, done |-> FALSE]
SessionIdle == SessionStart("closed") /\ session = CHOOSE s \in Sessions : TRUE
HttpIdle == HttpInit /\ query = (CHOOSE q \in Queries : TRUE) /\ reply = (CHOOSE r \in HttpResponses : TRUE)

LuaInit ==
    /\ Init /\ SocketBusInit
    /\ \/ part \in {"local bus", "socket bus"} /\ RepliesIdle /\ DataIdle /\ recv_buffer = <<>> /\ SessionIdle /\ HttpIdle
       \/ part = "replies" /\ RepliesInit /\ DataIdle /\ SessionIdle /\ HttpIdle
       \/ part = "data" /\ DataInit /\ RepliesIdle /\ recv_buffer = <<>> /\ SessionIdle /\ HttpIdle
       \/ part = "session" /\ SessionInit /\ RepliesIdle /\ DataIdle /\ recv_buffer = <<>> /\ HttpIdle
       \/ part = "http" /\ HttpInit /\ RepliesIdle /\ DataIdle /\ recv_buffer = <<>> /\ SessionIdle

LocalBusPart == part = "local bus" /\ Next /\ UNCHANGED <<part, socketBusVars, smtpIo, sessionVars, httpVars>>
SocketBusPart == part = "socket bus" /\ SocketBusNext /\ UNCHANGED <<part, vars, smtpIo, sessionVars, httpVars>>
RepliesPart == part = "replies" /\ RepliesNext /\ UNCHANGED <<part, vars, socketBusVars, sessionVars, httpVars>>
DataPart == part = "data" /\ DataNext /\ UNCHANGED <<part, vars, socketBusVars, sessionVars, httpVars>>
SessionPart == part = "session" /\ SessionNext /\ UNCHANGED <<part, vars, socketBusVars, smtpIo, httpVars>>
HttpPart == part = "http" /\ HttpNext /\ UNCHANGED <<part, vars, socketBusVars, smtpIo, sessionVars>>

LuaNext == LocalBusPart \/ SocketBusPart \/ RepliesPart \/ DataPart \/ SessionPart \/ HttpPart
LuaSpec == LuaInit /\ [][LuaNext]_luaVars

\* The fairness of the local bus (its module says why); a server of the socket
\* bus that has something to read, and the two sides of an SMTP session, go on.
LuaFairness ==
    /\ \A s \in Servers : /\ WF_vars(part = "local bus" /\ ResumeServer(s))
                          /\ WF_vars(part = "local bus" /\ RecvRequest(s))
    /\ \A c \in Clients : WF_vars(part = "local bus" /\ ResumeClient(c))
    /\ \A r \in Requests :
           WF_vars(part = "local bus" /\ \E s \in Servers \cup Workers, v \in Responses : SendResponse(s, r, v))
    /\ WF_socketBusVars(part = "socket bus" /\ ServerTurn)
    /\ WF_sessionVars(part = "session" /\ ServerRuns /\ UNCHANGED session)
    /\ WF_sessionVars(part = "session" /\ ClientRuns /\ UNCHANGED session)
LuaFairSpec == LuaSpec /\ LuaFairness

\* Every part keeps to the types its module states.
AllTypesOK == TypeOK /\ SocketBusTypeOK /\ SmtpIoTypeOK /\ SessionTypeOK /\ HttpTypeOK

\* On both buses a request that was sent is received, and a client that waits
\* for its response gets it, but for what killed clients, servers that end and
\* connections closed early leave behind (see each of the three).
BusesServe == RequestsServed /\ ResponsesArrive /\ RequestsReceived
=============================================================================
