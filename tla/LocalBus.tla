------------------------------ MODULE LocalBus ------------------------------
(***************************************************************************)
(* ratchet.bus.new_local() (samestate.lua, samestate_transaction.lua): a   *)
(* bus between threads of one ratchet object, built on pause() and         *)
(* unpause().                                                              *)
(*                                                                         *)
(* A method runs without yielding until it pauses, so each is one step.    *)
(* unpause() makes the paused thread ready with the value its pause() will *)
(* return; the kernel resumes it later.  The module Kernel models what     *)
(* pause, unpause and kill do; here a thread is running its program        *)
(* ("run"), paused, ready or killed.  A transaction is identified with its *)
(* request.                                                                *)
(***************************************************************************)
EXTENDS Naturals, Sequences

CONSTANTS
    Servers,      \* the threads that call recv_request()
    Clients,      \* the threads that call send_request() and recv_response()
    Workers,      \* threads that servers hand transactions to, to answer them
    Requests,     \* the requests sent: at most one transaction for each
    Responses,    \* the response objects
    Falsy,        \* those of them that are nil or false to Lua
    None,         \* no thread, no request, no response
    Killable      \* the threads another thread may kill() while they are paused

ASSUME LocalBusAssumption ==
    /\ Servers \cap Clients = {} /\ Workers \cap (Servers \cup Clients) = {}
    /\ Falsy \subseteq Responses
    /\ Killable \subseteq Servers \cup Clients
    /\ None \notin Servers \cup Clients \cup Workers \cup Requests \cup Responses

VARIABLES
    queue,             \* self.queue of the bus
    waiting_thread,    \* self.waiting_thread of the bus
    t_waiting,         \* self.waiting_thread of each transaction
    response,          \* self.response of each transaction, None if not set
    th,                \* each thread's state in the kernel
    arg,               \* what pause() will return to a ready thread
    on,                \* the request a client paused in recv_response() asks for
    owner,             \* the client that sent each request
    taken, told,       \* requests received; what recv_response() returned
    broken             \* unpause() raised an error

vars == <<queue, waiting_thread, t_waiting, response, th, arg, on, owner, taken, told, broken>>

Threads == Servers \cup Clients \cup Workers

TypeOK ==
    /\ queue \in Seq(Requests)
    /\ waiting_thread \in Servers \cup {None}
    /\ t_waiting \in [Requests -> Clients \cup {None}]
    /\ response \in [Requests -> Responses \cup {None}]
    /\ th \in [Threads -> {"run", "paused", "ready", "killed"}]
    /\ arg \in [Threads -> Requests \cup Responses \cup {None}]
    /\ on \in [Clients -> Requests \cup {None}]
    /\ owner \in [Requests -> Clients \cup {None}]
    /\ taken \subseteq Requests
    /\ told \in [Requests -> Responses \cup {None}]
    /\ broken \in BOOLEAN

\* samestate.new(), and samestate_transaction.new() for every transaction to come.
Init ==
    /\ queue = <<>>
    /\ waiting_thread = None
    /\ t_waiting = [r \in Requests |-> None]
    /\ response = [r \in Requests |-> None]
    /\ th = [t \in Threads |-> "run"]
    /\ arg = [t \in Threads |-> None]
    /\ on = [c \in Clients |-> None]
    /\ owner = [r \in Requests |-> None]
    /\ taken = {}
    /\ told = [r \in Requests |-> None]
    /\ broken = FALSE

-----------------------------------------------------------------------------
\* thread.unpause(t, v): an error if t is not suspended any more.
Unpause(t, v) ==
    \/ /\ th[t] = "paused"
       /\ th' = [th EXCEPT ![t] = "ready"]
       /\ arg' = [arg EXCEPT ![t] = v]
       /\ UNCHANGED broken
    \/ /\ th[t] # "paused"
       /\ broken' = TRUE
       /\ UNCHANGED <<th, arg>>

\* What an if statement of Lua takes for true.
Truthy(v) == v # None /\ v \notin Falsy

\* send_request(): the waiting thread gets the transaction, or it is queued.  After
\* an error in unpause() the slot is not cleared.
SendRequest(c, r) ==
    /\ ~broken /\ th[c] = "run" /\ owner[r] = None
    /\ owner' = [owner EXCEPT ![r] = c]
    /\ \/ /\ waiting_thread # None
          /\ Unpause(waiting_thread, r)
          /\ waiting_thread' = IF broken' THEN waiting_thread ELSE None
          /\ UNCHANGED queue
       \/ /\ waiting_thread = None
          /\ queue' = Append(queue, r)
          /\ UNCHANGED <<waiting_thread, th, arg, broken>>
    /\ UNCHANGED <<t_waiting, response, on, taken, told>>

\* Mutant: table.remove(self.queue) without a position takes the last entry.
RecvRequestNewest(s) ==
    /\ ~broken /\ th[s] = "run"
    /\ \/ /\ queue = <<>>
          /\ waiting_thread' = s
          /\ th' = [th EXCEPT ![s] = "paused"]
          /\ UNCHANGED <<queue, taken>>
       \/ /\ queue # <<>>
          /\ taken' = taken \cup {queue[Len(queue)]}
          /\ queue' = SubSeq(queue, 1, Len(queue) - 1)
          /\ UNCHANGED <<waiting_thread, th>>
    /\ UNCHANGED <<t_waiting, response, arg, on, owner, told, broken>>

\* Mutant: the thread pauses without entering the slot.
RecvRequestNoSlot(s) ==
    /\ ~broken /\ th[s] = "run"
    /\ \/ /\ queue = <<>>
          /\ th' = [th EXCEPT ![s] = "paused"]
          /\ UNCHANGED <<queue, taken>>
       \/ /\ queue # <<>>
          /\ taken' = taken \cup {Head(queue)}
          /\ queue' = Tail(queue)
          /\ UNCHANGED th
    /\ UNCHANGED <<waiting_thread, t_waiting, response, arg, on, owner, told, broken>>

\* recv_request(): the head of the queue, or the thread pauses in the bus's slot.
RecvRequest(s) ==
    /\ ~broken /\ th[s] = "run"
    /\ \/ /\ queue = <<>>
          /\ waiting_thread' = s
          /\ th' = [th EXCEPT ![s] = "paused"]
          /\ UNCHANGED <<queue, taken>>
       \/ /\ queue # <<>>
          /\ taken' = taken \cup {Head(queue)}
          /\ queue' = Tail(queue)
          /\ UNCHANGED <<waiting_thread, th>>
    /\ UNCHANGED <<t_waiting, response, arg, on, owner, told, broken>>

\* The kernel resumes a server in recv_request().
ResumeServer(s) ==
    /\ ~broken /\ th[s] = "ready"
    /\ th' = [th EXCEPT ![s] = "run"]
    /\ taken' = taken \cup {arg[s]}
    /\ arg' = [arg EXCEPT ![s] = None]
    /\ UNCHANGED <<queue, waiting_thread, t_waiting, response, on, owner, told, broken>>

\* send_response(), once per transaction, by a server thread or a worker.
SendResponse(s, r, v) ==
    /\ ~broken /\ th[s] = "run" /\ r \in taken /\ response[r] = None
    /\ response' = [response EXCEPT ![r] = v]
    /\ \/ /\ t_waiting[r] # None
          /\ Unpause(t_waiting[r], v)
          /\ t_waiting' = IF broken' THEN t_waiting ELSE [t_waiting EXCEPT ![r] = None]
       \/ /\ t_waiting[r] = None
          /\ UNCHANGED <<t_waiting, th, arg, broken>>
    /\ UNCHANGED <<queue, waiting_thread, on, owner, taken, told>>

\* recv_response(): the response if there is one (and it is not nil or false), or
\* the thread pauses in the transaction's slot.
RecvResponse(c, r) ==
    /\ ~broken /\ th[c] = "run" /\ owner[r] = c
    /\ \/ /\ Truthy(response[r])
          /\ told' = [told EXCEPT ![r] = response[r]]
          /\ UNCHANGED <<t_waiting, th, on>>
       \/ /\ ~Truthy(response[r])
          /\ t_waiting' = [t_waiting EXCEPT ![r] = c]
          /\ th' = [th EXCEPT ![c] = "paused"]
          /\ on' = [on EXCEPT ![c] = r]
          /\ UNCHANGED told
    /\ UNCHANGED <<queue, waiting_thread, response, arg, owner, taken, broken>>

\* The kernel resumes a client in recv_response().
ResumeClient(c) ==
    /\ ~broken /\ th[c] = "ready"
    /\ th' = [th EXCEPT ![c] = "run"]
    /\ told' = [told EXCEPT ![on[c]] = arg[c]]
    /\ arg' = [arg EXCEPT ![c] = None]
    /\ on' = [on EXCEPT ![c] = None]
    /\ UNCHANGED <<queue, waiting_thread, t_waiting, response, owner, taken, broken>>

\* thread.kill() of a paused thread, or its alarm.
Kill(t) ==
    /\ ~broken /\ th[t] = "paused" /\ t \in Killable
    /\ th' = [th EXCEPT ![t] = "killed"]
    /\ UNCHANGED <<queue, waiting_thread, t_waiting, response, arg, on, owner, taken, told, broken>>

Next ==
    \/ \E c \in Clients, r \in Requests : SendRequest(c, r) \/ RecvResponse(c, r)
    \/ \E s \in Servers : RecvRequest(s) \/ ResumeServer(s)
    \/ \E s \in Servers \cup Workers, r \in Requests, v \in Responses : SendResponse(s, r, v)
    \/ \E c \in Clients : ResumeClient(c)
    \/ \E t \in Threads : Kill(t)

Spec == Init /\ [][Next]_vars

-----------------------------------------------------------------------------
(***************************************************************************)
(* Properties.                                                             *)
(***************************************************************************)
Queued == {queue[i] : i \in DOMAIN queue}

\* "Requests are queued if a thread is not actively waiting for them": a request
\* that was sent is in the queue, on its way to a server, or received.
NoneLost ==
    \A r \in Requests : owner[r] # None =>
        r \in taken \/ r \in Queued \/ \E s \in Servers : th[s] = "ready" /\ arg[s] = r

\* A thread paused in recv_request() is the one the next request will wake, and it
\* pauses only while there is nothing in the queue.
ServerNotForgotten ==
    \A s \in Servers : th[s] = "paused" => waiting_thread = s /\ queue = <<>>

\* "Waiting for a response will pause until one is sent": a thread paused in
\* recv_response() is the one send_response() will wake, and no response was sent
\* yet.
ClientNotForgotten ==
    \A c \in Clients : th[c] = "paused" =>
        t_waiting[on[c]] = c /\ response[on[c]] = None

\* With one server thread, the request unpause() handed over is ahead of the queue.
Server == CHOOSE s \in Servers : TRUE
Pending == IF th[Server] = "ready" THEN <<arg[Server]>> \o queue ELSE queue

Abstract == INSTANCE Bus WITH pending <- Pending, answer <- response

\* The local bus implements the abstract one: requests are received in order and
\* once, and a client is told the response of its own transaction.
ImplementsBus == Abstract!BusSpec

-----------------------------------------------------------------------------
\* The kernel resumes ready threads; a server that is not paused calls
\* recv_request() again, and every request received is answered by a server or a
\* worker that runs.
Fairness ==
    /\ \A s \in Servers : WF_vars(ResumeServer(s)) /\ WF_vars(RecvRequest(s))
    /\ \A c \in Clients : WF_vars(ResumeClient(c))
    /\ \A r \in Requests : WF_vars(\E s \in Servers \cup Workers, v \in Responses : SendResponse(s, r, v))

FairSpec == Spec /\ Fairness

\* Every request is eventually received, unless unpause() of a killed client has
\* raised an error before.
RequestsServed == \A r \in Requests : owner[r] # None ~> r \in taken \/ broken

\* A client in recv_response() eventually returns from it, unless it is killed there.
ResponsesArrive == \A c \in Clients : th[c] = "paused" ~> th[c] \in {"run", "killed"} \/ broken

=============================================================================
