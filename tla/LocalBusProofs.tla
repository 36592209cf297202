--------------------------- MODULE LocalBusProofs ---------------------------
(***************************************************************************)
(* Proofs about LocalBus: with one server thread it implements the abstract*)
(* bus, for every number of clients, workers, requests and responses.      *)
(***************************************************************************)
EXTENDS LocalBus, TLAPS

\* ratchet.bus.new_local() as it is meant to be used: one thread receives.
OneServer == Servers = {Server}

(***************************************************************************)
(* The inductive invariant.  A slot names a thread that paused in it; a    *)
(* server in the slot found the queue empty; what a ready thread will be   *)
(* given is a request, or the response of its transaction; a client waits  *)
(* in the slot of a transaction of its own; and a request nobody sent yet  *)
(* is nowhere in the bus.                                                  *)
(***************************************************************************)
SlotInv ==
    /\ waiting_thread # None => queue = <<>> /\ th[waiting_thread] \in {"paused", "killed"}
    /\ \A s \in Servers : th[s] = "ready" => arg[s] \in Requests
    /\ \A r \in Requests : t_waiting[r] # None =>
        on[t_waiting[r]] = r /\ th[t_waiting[r]] \in {"paused", "killed"}
    /\ \A t \in Threads : th[t] = "killed" => t \in Killable
    /\ OneServer => \A s \in Servers : th[s] = "paused" => waiting_thread = s

ClientInv ==
    \A c \in Clients :
        /\ th[c] = "ready" =>
            on[c] \in Requests /\ response[on[c]] # None /\ arg[c] = response[on[c]]
        /\ th[c] = "paused" =>
            /\ on[c] \in Requests /\ owner[on[c]] = c /\ t_waiting[on[c]] = c
            /\ Falsy = {} => response[on[c]] = None

FreshInv ==
    \A r \in Requests : owner[r] = None =>
        /\ r \notin taken
        /\ r \notin Queued
        /\ \A s \in Servers : th[s] = "ready" => arg[s] # r

-----------------------------------------------------------------------------
\* Facts about queues.
LEMMA AppendQueued ==
  ASSUME NEW S, NEW q \in Seq(S), NEW x \in S
  PROVE  /\ Append(q, x) \in Seq(S)
         /\ \A i \in DOMAIN Append(q, x) : Append(q, x)[i] = x \/ \E j \in DOMAIN q : Append(q, x)[i] = q[j]
  OBVIOUS

LEMMA TailQueued ==
  ASSUME NEW S, NEW q \in Seq(S), q # <<>>
  PROVE  /\ Tail(q) \in Seq(S)
         /\ Head(q) \in S
         /\ \E j \in DOMAIN q : Head(q) = q[j]
         /\ \A i \in DOMAIN Tail(q) : \E j \in DOMAIN q : Tail(q)[i] = q[j]
  <1>1. /\ Tail(q) \in Seq(S) /\ Head(q) \in S
    OBVIOUS
  <1>2. 1 \in DOMAIN q /\ Head(q) = q[1]
    OBVIOUS
  <1>3. ASSUME NEW i \in DOMAIN Tail(q) PROVE i + 1 \in DOMAIN q /\ Tail(q)[i] = q[i + 1]
    OBVIOUS
  <1>4. QED
    BY <1>1, <1>2, <1>3

LEMMA PrependAppend ==
  ASSUME NEW S, NEW q \in Seq(S), NEW x \in S, NEW a \in S
  PROVE  <<a>> \o Append(q, x) = Append(<<a>> \o q, x)
  OBVIOUS

LEMMA PrependTail ==
  ASSUME NEW S, NEW q \in Seq(S), NEW a \in S
  PROVE  /\ <<a>> \o q # <<>>
         /\ Head(<<a>> \o q) = a
         /\ Tail(<<a>> \o q) = q
         /\ \A i \in DOMAIN (<<a>> \o q) : (<<a>> \o q)[i] = a \/ \E j \in DOMAIN q : (<<a>> \o q)[i] = q[j]
  OBVIOUS

LEMMA PrependEmpty ==
  ASSUME NEW S, NEW a \in S
  PROVE  <<a>> \o <<>> = Append(<<>>, a)
  OBVIOUS

-----------------------------------------------------------------------------
(***************************************************************************)
(* The invariant.                                                          *)
(***************************************************************************)
Inv == TypeOK /\ SlotInv /\ ClientInv /\ FreshInv

LEMMA InitInv == Init => Inv
  <1> SUFFICES ASSUME Init PROVE Inv
    OBVIOUS
  <1> USE LocalBusAssumption DEF Init, Threads
  <1>1. TypeOK
    <2>1. queue \in Seq(Requests) /\ taken \subseteq Requests
      OBVIOUS
    <2>2. broken \in BOOLEAN
      BY Zenon
    <2>3. QED
      BY <2>1, <2>2 DEF TypeOK
  <1>2. SlotInv
    BY DEF SlotInv
  <1>3. ClientInv
    BY DEF ClientInv
  <1>4. FreshInv
    <2>1. DOMAIN queue = {}
      OBVIOUS
    <2>2. QED
      BY <2>1 DEF FreshInv, Queued
  <1>5. QED
    BY <1>1, <1>2, <1>3, <1>4 DEF Inv

\* What a step of send_request() does: to a waiting server, to a killed one, or
\* into the queue.
LEMMA SendRequestCases ==
  ASSUME Inv, NEW c \in Clients, NEW r \in Requests, SendRequest(c, r)
  PROVE  \/ /\ waiting_thread \in Servers /\ th[waiting_thread] = "paused"
            /\ th' = [th EXCEPT ![waiting_thread] = "ready"]
            /\ arg' = [arg EXCEPT ![waiting_thread] = r]
            /\ waiting_thread' = None /\ UNCHANGED <<queue, broken>>
         \/ /\ waiting_thread \in Servers /\ th[waiting_thread] = "killed"
            /\ broken' = TRUE /\ UNCHANGED <<waiting_thread, queue, th, arg>>
         \/ /\ waiting_thread = None
            /\ queue' = Append(queue, r) /\ UNCHANGED <<waiting_thread, th, arg, broken>>
  <1>1. CASE waiting_thread # None /\ th[waiting_thread] = "paused"
    <2>1. waiting_thread \in Servers
      BY <1>1 DEF Inv, TypeOK
    <2>2. broken' = broken /\ ~broken
      BY <1>1 DEF SendRequest, Unpause
    <2>3. QED
      BY <1>1, <2>1, <2>2 DEF SendRequest, Unpause
  <1>2. CASE waiting_thread # None /\ th[waiting_thread] # "paused"
    <2>1. waiting_thread \in Servers /\ th[waiting_thread] = "killed"
      BY <1>2 DEF Inv, TypeOK, SlotInv
    <2>2. broken' = TRUE
      BY <1>2 DEF SendRequest, Unpause
    <2>3. QED
      BY <1>2, <2>1, <2>2, Zenon DEF SendRequest, Unpause
  <1>3. CASE waiting_thread = None
    BY <1>3 DEF SendRequest
  <1>4. QED
    BY <1>1, <1>2, <1>3, Zenon

LEMMA SendRequestInv ==
  ASSUME Inv, NEW c \in Clients, NEW r \in Requests, SendRequest(c, r)
  PROVE  Inv'
  <1> USE LocalBusAssumption DEF Threads
  <1>1. /\ owner' = [owner EXCEPT ![r] = c] /\ owner[r] = None
        /\ UNCHANGED <<t_waiting, response, on, taken, told>>
    BY DEF SendRequest
  <1>2. CASE /\ waiting_thread \in Servers /\ th[waiting_thread] = "paused"
             /\ th' = [th EXCEPT ![waiting_thread] = "ready"]
             /\ arg' = [arg EXCEPT ![waiting_thread] = r]
             /\ waiting_thread' = None /\ UNCHANGED <<queue, broken>>
    <2>1. TypeOK'
      BY <1>1, <1>2 DEF Inv, TypeOK
    <2>2. SlotInv'
      BY <1>1, <1>2 DEF Inv, TypeOK, SlotInv, OneServer
    <2>3. ClientInv'
      BY <1>1, <1>2 DEF Inv, TypeOK, ClientInv
    <2>4. FreshInv'
      BY <1>1, <1>2 DEF Inv, TypeOK, FreshInv, Queued
    <2>5. QED
      BY <2>1, <2>2, <2>3, <2>4 DEF Inv
  <1>3. CASE broken' = TRUE /\ UNCHANGED <<waiting_thread, queue, th, arg>>
    <2>1. TypeOK' /\ SlotInv' /\ FreshInv'
      BY <1>1, <1>3 DEF Inv, TypeOK, SlotInv, FreshInv, Queued, OneServer
    <2>2. ClientInv'
      BY <1>1, <1>3 DEF Inv, TypeOK, ClientInv
    <2>3. QED
      BY <2>1, <2>2 DEF Inv
  <1>4. CASE waiting_thread = None /\ queue' = Append(queue, r) /\ UNCHANGED <<waiting_thread, th, arg, broken>>
    <2>1. TypeOK'
      BY <1>1, <1>4, AppendQueued DEF Inv, TypeOK
    <2>2. SlotInv'
      BY <1>1, <1>4 DEF Inv, TypeOK, SlotInv, OneServer
    <2>3. ClientInv'
      BY <1>1, <1>4 DEF Inv, TypeOK, ClientInv
    <2>4. \A x \in Queued' : x = r \/ x \in Queued
      BY <1>4, AppendQueued DEF Inv, TypeOK, Queued
    <2>5. FreshInv'
      BY <1>1, <1>4, <2>4 DEF Inv, TypeOK, FreshInv
    <2>6. QED
      BY <2>1, <2>2, <2>3, <2>5 DEF Inv
  <1>5. QED
    BY <1>2, <1>3, <1>4, SendRequestCases, Zenon

LEMMA RecvRequestInv ==
  ASSUME Inv, NEW s \in Servers, RecvRequest(s)
  PROVE  Inv'
  <1> USE LocalBusAssumption DEF Threads
  <1>1. th[s] = "run" /\ UNCHANGED <<t_waiting, response, arg, on, owner, told, broken>>
    BY DEF RecvRequest
  <1>2. CASE queue = <<>> /\ waiting_thread' = s /\ th' = [th EXCEPT ![s] = "paused"] /\ UNCHANGED <<queue, taken>>
    <2>1. TypeOK' /\ ClientInv'
      BY <1>1, <1>2 DEF Inv, TypeOK, ClientInv
    <2>2. SlotInv'
      BY <1>1, <1>2 DEF Inv, TypeOK, SlotInv, OneServer
    <2>3. FreshInv'
      BY <1>1, <1>2 DEF Inv, TypeOK, FreshInv, Queued
    <2>4. QED
      BY <2>1, <2>2, <2>3 DEF Inv
  <1>3. CASE queue # <<>> /\ taken' = taken \cup {Head(queue)} /\ queue' = Tail(queue) /\ UNCHANGED <<waiting_thread, th>>
    <2>1. TypeOK' /\ ClientInv'
      BY <1>1, <1>3, TailQueued DEF Inv, TypeOK, ClientInv
    <2>2. SlotInv'
      BY <1>1, <1>3 DEF Inv, TypeOK, SlotInv, OneServer
    <2>3. Queued' \subseteq Queued /\ Head(queue) \in Queued
      BY <1>3, TailQueued DEF Inv, TypeOK, Queued
    <2>4. FreshInv'
      BY <1>1, <1>3, <2>3 DEF Inv, TypeOK, FreshInv
    <2>5. QED
      BY <2>1, <2>2, <2>4 DEF Inv
  <1>4. QED
    BY <1>2, <1>3 DEF RecvRequest

LEMMA ResumeServerInv ==
  ASSUME Inv, NEW s \in Servers, ResumeServer(s)
  PROVE  Inv'
  <1> USE LocalBusAssumption DEF Threads
  <1>1. /\ th[s] = "ready" /\ th' = [th EXCEPT ![s] = "run"] /\ taken' = taken \cup {arg[s]}
        /\ arg' = [arg EXCEPT ![s] = None]
        /\ UNCHANGED <<queue, waiting_thread, t_waiting, response, on, owner, told, broken>>
    BY DEF ResumeServer
  <1>2. arg[s] \in Requests
    BY <1>1 DEF Inv, SlotInv
  <1>3. TypeOK' /\ ClientInv'
    BY <1>1, <1>2 DEF Inv, TypeOK, ClientInv
  <1>4. SlotInv'
    BY <1>1 DEF Inv, TypeOK, SlotInv, OneServer
  <1>5. FreshInv'
    BY <1>1 DEF Inv, TypeOK, FreshInv, Queued
  <1>6. QED
    BY <1>3, <1>4, <1>5 DEF Inv

\* What a step of send_response() does: to a waiting client, to a killed one, or
\* with nobody waiting.
LEMMA SendResponseCases ==
  ASSUME Inv, NEW s \in Servers \cup Workers, NEW r \in Requests, NEW v \in Responses,
         SendResponse(s, r, v)
  PROVE  \/ /\ t_waiting[r] \in Clients /\ on[t_waiting[r]] = r /\ th[t_waiting[r]] = "paused"
            /\ th' = [th EXCEPT ![t_waiting[r]] = "ready"]
            /\ arg' = [arg EXCEPT ![t_waiting[r]] = v]
            /\ t_waiting' = [t_waiting EXCEPT ![r] = None] /\ UNCHANGED broken
         \/ /\ t_waiting[r] \in Clients /\ on[t_waiting[r]] = r /\ th[t_waiting[r]] = "killed"
            /\ broken' = TRUE /\ UNCHANGED <<t_waiting, th, arg>>
         \/ /\ t_waiting[r] = None /\ UNCHANGED <<t_waiting, th, arg, broken>>
  <1>1. CASE t_waiting[r] # None /\ th[t_waiting[r]] = "paused"
    <2>1. t_waiting[r] \in Clients /\ on[t_waiting[r]] = r
      BY <1>1 DEF Inv, TypeOK, SlotInv
    <2>2. broken' = broken /\ ~broken
      BY <1>1 DEF SendResponse, Unpause
    <2>3. QED
      BY <1>1, <2>1, <2>2 DEF SendResponse, Unpause
  <1>2. CASE t_waiting[r] # None /\ th[t_waiting[r]] # "paused"
    <2>1. t_waiting[r] \in Clients /\ on[t_waiting[r]] = r /\ th[t_waiting[r]] = "killed"
      BY <1>2 DEF Inv, TypeOK, SlotInv
    <2>2. broken' = TRUE
      BY <1>2 DEF SendResponse, Unpause
    <2>3. QED
      BY <1>2, <2>1, <2>2, Zenon DEF SendResponse, Unpause
  <1>3. CASE t_waiting[r] = None
    BY <1>3 DEF SendResponse
  <1>4. QED
    BY <1>1, <1>2, <1>3, Zenon

LEMMA SendResponseInv ==
  ASSUME Inv, NEW s \in Servers \cup Workers, NEW r \in Requests, NEW v \in Responses,
         SendResponse(s, r, v)
  PROVE  Inv'
  <1> USE LocalBusAssumption DEF Threads
  <1>1. /\ response' = [response EXCEPT ![r] = v] /\ response[r] = None
        /\ UNCHANGED <<queue, waiting_thread, on, owner, taken, told>>
    BY DEF SendResponse
  <1>2. CASE /\ t_waiting[r] \in Clients /\ on[t_waiting[r]] = r /\ th[t_waiting[r]] = "paused"
             /\ th' = [th EXCEPT ![t_waiting[r]] = "ready"]
             /\ arg' = [arg EXCEPT ![t_waiting[r]] = v]
             /\ t_waiting' = [t_waiting EXCEPT ![r] = None] /\ UNCHANGED broken
    <2>1. TypeOK'
      BY <1>1, <1>2 DEF Inv, TypeOK
    <2>2. SlotInv'
      BY <1>1, <1>2 DEF Inv, TypeOK, SlotInv, OneServer
    <2>3. ClientInv'
      BY <1>1, <1>2 DEF Inv, TypeOK, ClientInv
    <2>4. FreshInv'
      BY <1>1, <1>2 DEF Inv, TypeOK, FreshInv, Queued
    <2>5. QED
      BY <2>1, <2>2, <2>3, <2>4 DEF Inv
  <1>3. CASE t_waiting[r] \in Clients /\ on[t_waiting[r]] = r /\ th[t_waiting[r]] = "killed"
             /\ broken' = TRUE /\ UNCHANGED <<t_waiting, th, arg>>
    <2>1. TypeOK' /\ SlotInv' /\ FreshInv'
      BY <1>1, <1>3 DEF Inv, TypeOK, SlotInv, FreshInv, Queued, OneServer
    <2>2. ClientInv'
      BY <1>1, <1>3 DEF Inv, TypeOK, ClientInv
    <2>3. QED
      BY <2>1, <2>2 DEF Inv
  <1>4. CASE t_waiting[r] = None /\ UNCHANGED <<t_waiting, th, arg, broken>>
    <2>1. TypeOK' /\ SlotInv' /\ FreshInv'
      BY <1>1, <1>4 DEF Inv, TypeOK, SlotInv, FreshInv, Queued, OneServer
    <2>2. ClientInv'
      BY <1>1, <1>4 DEF Inv, TypeOK, ClientInv
    <2>3. QED
      BY <2>1, <2>2 DEF Inv
  <1>5. QED
    BY <1>2, <1>3, <1>4, SendResponseCases, Zenon

LEMMA RecvResponseInv ==
  ASSUME Inv, NEW c \in Clients, NEW r \in Requests, RecvResponse(c, r)
  PROVE  Inv'
  <1> USE LocalBusAssumption DEF Threads
  <1>1. /\ th[c] = "run" /\ owner[r] = c
        /\ UNCHANGED <<queue, waiting_thread, response, arg, owner, taken, broken>>
    BY DEF RecvResponse
  <1>2. CASE told' = [told EXCEPT ![r] = response[r]] /\ UNCHANGED <<t_waiting, th, on>>
    <2>1. TypeOK' /\ SlotInv' /\ FreshInv'
      BY <1>1, <1>2 DEF Inv, TypeOK, SlotInv, FreshInv, Queued, OneServer
    <2>2. ClientInv'
      BY <1>1, <1>2 DEF Inv, TypeOK, ClientInv
    <2>3. QED
      BY <2>1, <2>2 DEF Inv
  <1>3. CASE /\ ~Truthy(response[r])
             /\ t_waiting' = [t_waiting EXCEPT ![r] = c]
             /\ th' = [th EXCEPT ![c] = "paused"]
             /\ on' = [on EXCEPT ![c] = r] /\ UNCHANGED told
    <2>1. TypeOK'
      BY <1>1, <1>3 DEF Inv, TypeOK
    <2>2. SlotInv'
      BY <1>1, <1>3 DEF Inv, TypeOK, SlotInv, OneServer
    <2>3. Falsy = {} => response[r] = None
      BY <1>3 DEF Truthy
    <2>4. ClientInv'
      BY <1>1, <1>3, <2>3 DEF Inv, TypeOK, ClientInv
    <2>5. FreshInv'
      BY <1>1, <1>3 DEF Inv, TypeOK, FreshInv, Queued
    <2>6. QED
      BY <2>1, <2>2, <2>4, <2>5 DEF Inv
  <1>4. QED
    BY <1>2, <1>3 DEF RecvResponse

LEMMA ResumeClientInv ==
  ASSUME Inv, NEW c \in Clients, ResumeClient(c)
  PROVE  Inv'
  <1> USE LocalBusAssumption DEF Threads
  <1>1. /\ th[c] = "ready" /\ th' = [th EXCEPT ![c] = "run"]
        /\ told' = [told EXCEPT ![on[c]] = arg[c]]
        /\ arg' = [arg EXCEPT ![c] = None] /\ on' = [on EXCEPT ![c] = None]
        /\ UNCHANGED <<queue, waiting_thread, t_waiting, response, owner, taken, broken>>
    BY DEF ResumeClient
  <1>2. on[c] \in Requests /\ arg[c] \in Responses \cup {None}
    BY <1>1 DEF Inv, ClientInv, TypeOK
  <1>3. TypeOK'
    BY <1>1, <1>2 DEF Inv, TypeOK
  <1>4. SlotInv'
    BY <1>1 DEF Inv, TypeOK, SlotInv, OneServer
  <1>5. ClientInv'
    BY <1>1 DEF Inv, TypeOK, ClientInv
  <1>6. FreshInv'
    BY <1>1 DEF Inv, TypeOK, FreshInv, Queued
  <1>7. QED
    BY <1>3, <1>4, <1>5, <1>6 DEF Inv

LEMMA KillInv ==
  ASSUME Inv, NEW t \in Threads, Kill(t)
  PROVE  Inv'
  <1> USE LocalBusAssumption DEF Threads
  <1>1. /\ th[t] = "paused" /\ t \in Killable /\ th' = [th EXCEPT ![t] = "killed"]
        /\ UNCHANGED <<queue, waiting_thread, t_waiting, response, arg, on, owner, taken, told, broken>>
    BY DEF Kill
  <1>2. TypeOK' /\ FreshInv'
    BY <1>1 DEF Inv, TypeOK, FreshInv, Queued
  <1>3. SlotInv'
    BY <1>1 DEF Inv, TypeOK, SlotInv, OneServer
  <1>4. ClientInv'
    BY <1>1 DEF Inv, TypeOK, ClientInv
  <1>5. QED
    BY <1>2, <1>3, <1>4 DEF Inv

LEMMA InvStep == Inv /\ [Next]_vars => Inv'
  <1> SUFFICES ASSUME Inv, [Next]_vars PROVE Inv'
    OBVIOUS
  <1>1. CASE UNCHANGED vars
    BY <1>1 DEF vars, Inv, TypeOK, SlotInv, ClientInv, FreshInv, Queued
  <1>2. CASE Next
    BY <1>2, SendRequestInv, RecvRequestInv, ResumeServerInv, SendResponseInv, RecvResponseInv,
       ResumeClientInv, KillInv DEF Next
  <1>3. QED
    BY <1>1, <1>2

LEMMA Invariance == Spec => []Inv
  BY InitInv, InvStep, PTL DEF Spec

-----------------------------------------------------------------------------
(***************************************************************************)
(* What follows from the invariant.                                        *)
(***************************************************************************)

\* The state of the bus, of its transactions and of the threads in them is well
\* typed, with any number of servers and with threads killed in recv_request()
\* and recv_response().
THEOREM BusTypeCorrect == Spec => []TypeOK
  <1>1. Inv => TypeOK
    BY DEF Inv
  <1>2. QED
    BY <1>1, Invariance, PTL

\* A server that pauses in recv_request() is the one send_request() wakes, and the
\* queue is empty, if only one thread receives.
THEOREM ServerIsWoken ==
  ASSUME OneServer
  PROVE  Spec => []ServerNotForgotten
  <1>1. Inv => ServerNotForgotten
    BY OneServer, LocalBusAssumption DEF Inv, SlotInv, ServerNotForgotten, OneServer
  <1>2. QED
    BY <1>1, Invariance, PTL

\* A client that pauses in recv_response() is the one send_response() wakes, and it
\* paused before the response, if no response is nil or false.
THEOREM ClientIsWoken ==
  ASSUME Falsy = {}
  PROVE  Spec => []ClientNotForgotten
  <1>1. Inv => ClientNotForgotten
    BY Falsy = {} DEF Inv, ClientInv, ClientNotForgotten
  <1>2. QED
    BY <1>1, Invariance, PTL

-----------------------------------------------------------------------------
\* Facts about where a request is after one more was queued, or the first taken.
LEMMA AppendKeeps ==
  ASSUME NEW S, NEW q \in Seq(S), NEW x \in S
  PROVE  /\ \E i \in DOMAIN Append(q, x) : Append(q, x)[i] = x
         /\ \A j \in DOMAIN q : \E i \in DOMAIN Append(q, x) : Append(q, x)[i] = q[j]
  <1>1. Len(q) + 1 \in DOMAIN Append(q, x) /\ Append(q, x)[Len(q) + 1] = x
    OBVIOUS
  <1>2. \A j \in DOMAIN q : j \in DOMAIN Append(q, x) /\ Append(q, x)[j] = q[j]
    OBVIOUS
  <1>3. QED
    BY <1>1, <1>2

LEMMA TailKeeps ==
  ASSUME NEW S, NEW q \in Seq(S), q # <<>>, NEW j \in DOMAIN q
  PROVE  q[j] = Head(q) \/ \E i \in DOMAIN Tail(q) : Tail(q)[i] = q[j]
  <1>1. CASE j = 1
    BY <1>1
  <1>2. CASE j # 1
    <2>1. j - 1 \in DOMAIN Tail(q) /\ Tail(q)[j - 1] = q[j]
      BY <1>2
    <2>2. QED
      BY <2>1
  <1>3. QED
    BY <1>1, <1>2

\* A request in the queue, on its way to a server, or received stays so.
LEMMA StaysInBus ==
  ASSUME NoneLost,
         \A r \in Requests : owner'[r] # None =>
            owner[r] # None \/ r \in Queued' \/ \E s \in Servers : th'[s] = "ready" /\ arg'[s] = r,
         taken \subseteq taken',
         Queued \subseteq Queued' \cup taken',
         \A s \in Servers : th[s] = "ready" =>
            arg[s] \in taken' \/ (th'[s] = "ready" /\ arg'[s] = arg[s])
  PROVE  NoneLost'
  <1> SUFFICES ASSUME NEW r \in Requests, owner'[r] # None, owner[r] # None, r \notin taken', r \notin Queued'
               PROVE  \E s \in Servers : th'[s] = "ready" /\ arg'[s] = r
    BY DEF NoneLost
  <1>1. r \notin taken /\ r \notin Queued
    OBVIOUS
  <1>2. PICK s \in Servers : th[s] = "ready" /\ arg[s] = r
    BY <1>1 DEF NoneLost
  <1>3. th'[s] = "ready" /\ arg'[s] = r
    BY <1>2
  <1>4. QED
    BY <1>3

LEMMA NoneLostStep ==
  ASSUME Killable \cap Servers = {}, Inv, NoneLost, [Next]_vars
  PROVE  NoneLost'
  <1> USE LocalBusAssumption DEF Threads
  <1>1. ASSUME NEW c \in Clients, NEW r \in Requests, SendRequest(c, r) PROVE NoneLost'
    <2>1. taken' = taken /\ \A x \in Requests : owner'[x] # None => owner[x] # None \/ x = r
      BY <1>1 DEF SendRequest, Inv, TypeOK
    <2>2. CASE /\ waiting_thread \in Servers /\ th[waiting_thread] = "paused"
               /\ th' = [th EXCEPT ![waiting_thread] = "ready"]
               /\ arg' = [arg EXCEPT ![waiting_thread] = r]
               /\ UNCHANGED queue
      <3>1. th'[waiting_thread] = "ready" /\ arg'[waiting_thread] = r /\ Queued' = Queued
        BY <2>2 DEF Inv, TypeOK, Queued
      <3>2. \A s \in Servers : th[s] = "ready" => th'[s] = "ready" /\ arg'[s] = arg[s]
        BY <2>2 DEF Inv, TypeOK
      <3>3. \E s \in Servers : th'[s] = "ready" /\ arg'[s] = r
        BY <2>2, <3>1
      <3>4. QED
        BY <2>1, <3>1, <3>2, <3>3, StaysInBus, Zenon
    <2>3. ~(waiting_thread \in Servers /\ th[waiting_thread] = "killed")
      BY DEF Inv, SlotInv
    <2>4. CASE queue' = Append(queue, r) /\ UNCHANGED <<th, arg>>
      <3>1. queue \in Seq(Requests)
        BY DEF Inv, TypeOK
      <3>2. r \in Queued'
        BY <2>4, <3>1, AppendKeeps DEF Queued
      <3>3. Queued \subseteq Queued'
        <4> SUFFICES ASSUME NEW j \in DOMAIN queue PROVE queue[j] \in Queued'
          BY DEF Queued
        <4>1. PICK i \in DOMAIN Append(queue, r) : Append(queue, r)[i] = queue[j]
          BY <3>1, AppendKeeps
        <4>2. QED
          BY <2>4, <4>1 DEF Queued
      <3>4. QED
        BY <2>1, <2>4, <3>2, <3>3, StaysInBus
    <2>5. QED
      BY <1>1, <2>2, <2>3, <2>4, SendRequestCases, Zenon
  <1>2. ASSUME NEW s \in Servers, RecvRequest(s) PROVE NoneLost'
    <2>1. th[s] = "run" /\ UNCHANGED <<arg, owner>>
      BY <1>2 DEF RecvRequest
    <2>2. CASE th' = [th EXCEPT ![s] = "paused"] /\ UNCHANGED <<queue, taken>>
      BY <2>1, <2>2, StaysInBus DEF Queued, Inv, TypeOK
    <2>3. CASE queue # <<>> /\ taken' = taken \cup {Head(queue)} /\ queue' = Tail(queue) /\ UNCHANGED th
      <3>1. Queued \subseteq Queued' \cup taken'
        BY <2>3, TailKeeps DEF Queued, Inv, TypeOK
      <3>2. QED
        BY <2>1, <2>3, <3>1, StaysInBus
    <2>4. QED
      BY <1>2, <2>2, <2>3 DEF RecvRequest
  <1>3. ASSUME NEW s \in Servers, ResumeServer(s) PROVE NoneLost'
    <2>1. taken \subseteq taken' /\ Queued' = Queued /\ UNCHANGED owner
      BY <1>3, Zenon DEF ResumeServer, Queued
    <2>2. \A x \in Servers : th[x] = "ready" => arg[x] \in taken' \/ (th'[x] = "ready" /\ arg'[x] = arg[x])
      BY <1>3 DEF ResumeServer, Inv, TypeOK
    <2>3. QED
      BY <2>1, <2>2, StaysInBus
  <1>4. ASSUME UNCHANGED <<queue, owner, taken>>,
               \A x \in Servers : th[x] = "ready" => th'[x] = "ready" /\ arg'[x] = arg[x]
        PROVE  NoneLost'
    <2>1. Queued' = Queued
      BY <1>4 DEF Queued
    <2>2. QED
      BY <1>4, <2>1, StaysInBus
  <1>5. ASSUME NEW s \in Servers \cup Workers, NEW r \in Requests, NEW v \in Responses, SendResponse(s, r, v)
        PROVE  NoneLost'
    <2>1. UNCHANGED <<queue, owner, taken>>
      BY <1>5 DEF SendResponse
    <2>2. \/ UNCHANGED <<th, arg>>
          \/ \E c \in Clients : th' = [th EXCEPT ![c] = "ready"] /\ arg' = [arg EXCEPT ![c] = v]
      BY <1>5, SendResponseCases, Zenon
    <2>3. \A x \in Servers : th'[x] = th[x] /\ arg'[x] = arg[x]
      BY <2>2 DEF Inv, TypeOK
    <2>4. QED
      BY <1>4, <2>1, <2>3
  <1>6. ASSUME NEW c \in Clients, NEW r \in Requests, RecvResponse(c, r) PROVE NoneLost'
    BY <1>4, <1>6, Zenon DEF RecvResponse, Inv, TypeOK
  <1>7. ASSUME NEW c \in Clients, ResumeClient(c) PROVE NoneLost'
    BY <1>4, <1>7, Zenon DEF ResumeClient, Inv, TypeOK
  <1>8. ASSUME NEW t \in Threads, Kill(t) PROVE NoneLost'
    BY <1>4, <1>8 DEF Kill, Inv, TypeOK
  <1>9. CASE UNCHANGED vars
    BY <1>4, <1>9 DEF vars
  <1>10. QED
    BY <1>1, <1>2, <1>3, <1>5, <1>6, <1>7, <1>8, <1>9 DEF Next

\* No request sent with send_request() is lost on its way to recv_request(), with
\* any number of servers, as long as no server is killed while it waits.
THEOREM NoRequestIsLost ==
  ASSUME Killable \cap Servers = {}
  PROVE  Spec => []NoneLost
  <1>1. Init => NoneLost
    BY DEF Init, NoneLost
  <1>2. Inv /\ NoneLost /\ [Next]_vars => NoneLost'
    BY Killable \cap Servers = {}, NoneLostStep
  <1>3. QED
    BY <1>1, <1>2, Invariance, PTL DEF Spec

-----------------------------------------------------------------------------
(***************************************************************************)
(* Refinement: every step of the local bus is a step of the abstract bus,  *)
(* or leaves it unchanged.                                                 *)
(***************************************************************************)
LEMMA InitRefines == OneServer /\ Init => Abstract!BusInit
  BY DEF OneServer, Init, Abstract!BusInit, Pending, Threads

LEMMA SendRefines ==
  ASSUME OneServer, Inv, NEW c \in Clients, NEW r \in Requests, SendRequest(c, r)
  PROVE  Abstract!Send(r) \/ UNCHANGED <<Pending, taken, response, told>>
  <1> USE LocalBusAssumption DEF Threads
  <1>1. UNCHANGED <<taken, response, told>> /\ owner[r] = None
    BY Zenon DEF SendRequest
  <1>2. Server \in Servers /\ queue \in Seq(Requests) /\ th[Server] \in {"run", "paused", "ready", "killed"}
        /\ (th[Server] = "ready" => arg[Server] \in Requests)
    BY DEF OneServer, Inv, TypeOK, SlotInv
  <1>3. r \notin taken /\ r \notin Queued /\ (th[Server] = "ready" => arg[Server] # r)
    BY <1>1, <1>2, Zenon DEF Inv, FreshInv
  <1>4. r \notin Abstract!Range(Pending)
    BY <1>2, <1>3, PrependTail DEF Abstract!Range, Pending, Queued
  <1>5. CASE /\ waiting_thread \in Servers /\ th[waiting_thread] = "paused"
             /\ th' = [th EXCEPT ![waiting_thread] = "ready"]
             /\ arg' = [arg EXCEPT ![waiting_thread] = r]
             /\ UNCHANGED queue
    <2>1. waiting_thread = Server /\ queue = <<>>
      BY <1>5, Zenon DEF OneServer, Inv, SlotInv
    <2>2. Pending = <<>> /\ Pending' = <<r>> \o <<>>
      BY <1>2, <1>5, <2>1, Zenon DEF Pending, Inv, TypeOK
    <2>3. QED
      BY <1>1, <1>3, <1>4, <2>2, PrependEmpty DEF Abstract!Send
  <1>6. CASE UNCHANGED <<queue, th, arg>>
    BY <1>1, <1>6 DEF Pending
  <1>7. CASE queue' = Append(queue, r) /\ UNCHANGED <<th, arg>>
    <2>1. Pending' = Append(Pending, r)
      BY <1>2, <1>7, PrependAppend DEF Pending
    <2>2. QED
      BY <1>1, <1>3, <1>4, <2>1, Zenon DEF Abstract!Send
  <1>8. QED
    BY <1>5, <1>6, <1>7, SendRequestCases, Zenon

LEMMA ReceiveRefines ==
  ASSUME OneServer, Inv, NEW s \in Servers, RecvRequest(s) \/ ResumeServer(s)
  PROVE  Abstract!Receive \/ UNCHANGED <<Pending, taken, response, told>>
  <1> USE LocalBusAssumption DEF Threads
  <1>1. s = Server /\ queue \in Seq(Requests) /\ UNCHANGED <<response, told>>
    BY Zenon DEF OneServer, Inv, TypeOK, RecvRequest, ResumeServer
  <1>2. CASE RecvRequest(s) /\ queue = <<>>
    BY <1>1, <1>2, Zenon DEF RecvRequest, Pending, Inv, TypeOK
  <1>3. CASE RecvRequest(s) /\ queue # <<>>
    BY <1>1, <1>3, Zenon DEF RecvRequest, Pending, Abstract!Receive
  <1>4. CASE ResumeServer(s)
    <2>1. Pending = <<arg[s]>> \o queue /\ Pending' = queue /\ taken' = taken \cup {arg[s]}
      BY <1>1, <1>4, Zenon DEF ResumeServer, Pending, Inv, TypeOK
    <2>2. arg[s] \in Requests
      BY <1>4, Zenon DEF ResumeServer, Inv, SlotInv
    <2>3. QED
      BY <1>1, <2>1, <2>2, PrependTail DEF Abstract!Receive
  <1>5. QED
    BY <1>2, <1>3, <1>4

\* The steps of clients and of answering threads leave the server's part alone.
LEMMA PendingUnchanged ==
  ASSUME OneServer, UNCHANGED queue, th'[Server] = th[Server], arg'[Server] = arg[Server]
  PROVE  Pending' = Pending
  BY DEF Pending

LEMMA RespondRefines ==
  ASSUME OneServer, Inv, NEW s \in Servers \cup Workers, NEW r \in Requests, NEW v \in Responses,
         SendResponse(s, r, v)
  PROVE  Abstract!Respond(r, v)
  <1> USE LocalBusAssumption DEF Threads
  <1>1. \/ UNCHANGED <<th, arg>>
        \/ \E c \in Clients : th' = [th EXCEPT ![c] = "ready"] /\ arg' = [arg EXCEPT ![c] = v]
    BY SendResponseCases, Zenon
  <1>2. Server \in Servers
    BY DEF OneServer
  <1>3. th'[Server] = th[Server] /\ arg'[Server] = arg[Server]
    BY <1>1, <1>2 DEF Inv, TypeOK
  <1>4. Pending' = Pending
    BY <1>3, PendingUnchanged, Zenon DEF SendResponse
  <1>5. QED
    BY <1>4, Zenon DEF SendResponse, Abstract!Respond

LEMMA DeliverRefines ==
  ASSUME OneServer, Inv, NEW c \in Clients, ResumeClient(c) \/ \E r \in Requests : RecvResponse(c, r)
  PROVE  \/ \E r \in Requests : Abstract!Deliver(r)
         \/ UNCHANGED <<Pending, taken, response, told>>
  <1> USE LocalBusAssumption DEF Threads
  <1>1. Server \in Servers
    BY DEF OneServer
  <1>2. th'[Server] = th[Server] /\ arg'[Server] = arg[Server] /\ UNCHANGED <<queue, taken, response>>
    BY <1>1 DEF Inv, TypeOK, ResumeClient, RecvResponse
  <1>3. Pending' = Pending
    BY <1>2, PendingUnchanged, Zenon
  <1>4. CASE ResumeClient(c)
    <2>1. on[c] \in Requests /\ response[on[c]] # None /\ arg[c] = response[on[c]]
      BY <1>4, Zenon DEF ResumeClient, Inv, ClientInv
    <2>2. Abstract!Deliver(on[c])
      BY <1>2, <1>3, <1>4, <2>1 DEF ResumeClient, Abstract!Deliver
    <2>3. QED
      BY <2>1, <2>2
  <1>5. ASSUME NEW r \in Requests, RecvResponse(c, r)
        PROVE  Abstract!Deliver(r) \/ UNCHANGED <<Pending, taken, response, told>>
    BY <1>2, <1>3, <1>5, Zenon DEF RecvResponse, Truthy, Abstract!Deliver
  <1>6. QED
    BY <1>4, <1>5

LEMMA KillRefines ==
  ASSUME OneServer, Inv, NEW t \in Threads, Kill(t)
  PROVE  UNCHANGED <<Pending, taken, response, told>>
  BY LocalBusAssumption DEF Kill, Pending, Inv, TypeOK, OneServer, Threads

LEMMA StepRefines ==
  ASSUME OneServer, Inv, [Next]_vars
  PROVE  [Abstract!BusNext]_(Abstract!busVars)
  <1>1. CASE UNCHANGED vars
    BY <1>1 DEF vars, Pending, Abstract!busVars
  <1>2. CASE Next
    BY <1>2, SendRefines, ReceiveRefines, RespondRefines, DeliverRefines, KillRefines
       DEF Next, Abstract!BusNext, Abstract!busVars
  <1>3. QED
    BY <1>1, <1>2

\* With one server thread the local bus implements the abstract bus, whatever is
\* killed and whatever the responses are: requests are received in order and once,
\* and recv_response() returns the response of its own transaction.
THEOREM LocalBusImplementsBus ==
  ASSUME OneServer
  PROVE  Spec => ImplementsBus
  <1>1. Init => Abstract!BusInit
    BY OneServer, InitRefines
  <1>2. Inv /\ [Next]_vars => [Abstract!BusNext]_(Abstract!busVars)
    BY OneServer, StepRefines
  <1>3. QED
    BY <1>1, <1>2, Invariance, PTL DEF Spec, ImplementsBus, Abstract!BusSpec

=============================================================================
