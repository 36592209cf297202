-------------------------------- MODULE Bus ---------------------------------
(***************************************************************************)
(* What a message bus promises (bus.luadoc): requests reach the server side*)
(* in the order they were sent, each of them once, and the response given  *)
(* to a transaction is what the sender of its request receives.            *)
(***************************************************************************)
EXTENDS Sequences

CONSTANTS Requests, Responses, None

VARIABLES
    pending,    \* requests sent and not received yet, oldest first
    taken,      \* requests a server received
    answer,     \* the response sent for each request, or None
    told        \* what recv_response() returned for each request, or None

busVars == <<pending, taken, answer, told>>

Range(q) == {q[i] : i \in DOMAIN q}

BusInit ==
    /\ pending = <<>>
    /\ taken = {}
    /\ answer = [r \in Requests |-> None]
    /\ told = [r \in Requests |-> None]

Send(r) ==
    /\ r \notin taken \cup Range(pending)
    /\ pending' = Append(pending, r)
    /\ UNCHANGED <<taken, answer, told>>

Receive ==
    /\ pending # <<>>
    /\ taken' = taken \cup {Head(pending)}
    /\ pending' = Tail(pending)
    /\ UNCHANGED <<answer, told>>

Respond(r, v) ==
    /\ r \in taken /\ answer[r] = None
    /\ answer' = [answer EXCEPT ![r] = v]
    /\ UNCHANGED <<pending, taken, told>>

Deliver(r) ==
    /\ answer[r] # None
    /\ told' = [told EXCEPT ![r] = answer[r]]
    /\ UNCHANGED <<pending, taken, answer>>

BusNext ==
    \/ \E r \in Requests : Send(r)
    \/ Receive
    \/ \E r \in Requests, v \in Responses : Respond(r, v)
    \/ \E r \in Requests : Deliver(r)

BusSpec == BusInit /\ [][BusNext]_busVars

=============================================================================
