----------------------------- MODULE Descriptors -----------------------------
(***************************************************************************)
(* What the socket code finds below it, modelled from how that code uses   *)
(* it: the process's table of file descriptors, stream connections, and    *)
(* the readiness events of libevent over epoll.                            *)
(*                                                                         *)
(* A descriptor is a small number that names an open file and is given out *)
(* again, lowest first, once it was closed.  The readiness of a number is  *)
(* watched per direction; libevent tells the operating system about a      *)
(* direction only when the first event for it is added, and closing a      *)
(* file silently ends the watching of it.                                  *)
(*                                                                         *)
(* Descriptor 0 stands for the -1 of an object that was closed.            *)
(***************************************************************************)
EXTENDS Integers, Sequences, FiniteSets

CONSTANTS
    NFds,      \* descriptors are 1 .. NFds
    NConns,    \* stream connections the program may make
    Cap,       \* units a connection holds in one direction
    Backlog    \* connections a listener holds until they are accepted

ASSUME DescriptorsAssumption ==
    {NFds, NConns, Cap, Backlog} \subseteq Nat \ {0}

VARIABLES
    fdt,       \* descriptor -> open file
    conn,      \* connection -> its state
    backlog,   \* connections that wait for accept(), oldest first
    ep,        \* descriptor -> directions epoll watches
    timerfd    \* [armed, fires] of the timer descriptor

Fds == 1 .. NFds
Conns == 1 .. NConns
Sides == {"a", "b"}
Dirs == {"r", "w"}

\* An open file is the end of a connection; a socket that listens is the end
\* of a connection in state "listen".
NoFile == <<0, "none">>
Timer == <<0, "timer">>
OtherSide(side) == IF side = "a" THEN "b" ELSE "a"
Min2(m, n) == IF m < n THEN m ELSE n

NewConn ==
    [st |-> "new",                    \* new, listen, syn, refused, up, connected
     in |-> [side \in Sides |-> <<>>],   \* what each side may still read
     gone |-> {}, noread |-> {}, nowrite |-> {}, err |-> {}]   \* sets of sides

FreeFds == {f \in Fds : fdt[f] = NoFile}
Lowest(F) == {f \in F : \A g \in F : f <= g}
FreshConns == {c \in Conns : conn[c] = NewConn /\ \A f \in Fds : fdt[f][1] # c}
FreshConn == CHOOSE c \in FreshConns : TRUE
Stream(fd) == fd \in Fds /\ fdt[fd][1] \in Conns

\* What recv() of up to n units does on a descriptor, over connections cn:
\* the data, or an errno.
SysRecv(cn, fd, n) ==
    IF ~Stream(fd) THEN [res |-> "EBADF", data |-> <<>>, conn |-> cn]
    ELSE LET c == fdt[fd][1]
             side == fdt[fd][2]
             in == cn[c].in[side]
             k == Min2(n, Len(in))
             eof == \/ OtherSide(side) \in cn[c].gone \cup cn[c].nowrite
                    \/ side \in cn[c].noread
             get(res, data, new) == [res |-> res, data |-> data, conn |-> [cn EXCEPT ![c] = new]]
         IN CASE in # <<>> -> get("ok", SubSeq(in, 1, k),
                                  [cn[c] EXCEPT !.in[side] = SubSeq(in, k + 1, Len(in))])
              [] in = <<>> /\ side \in cn[c].err ->
                    get("ECONNRESET", <<>>, [cn[c] EXCEPT !.err = @ \ {side}])
              [] in = <<>> /\ side \notin cn[c].err /\ eof -> get("ok", <<>>, cn[c])
              [] OTHER -> get("EAGAIN", <<>>, cn[c])

\* What send() of some units does: how many it took, or an errno.
SysSend(cn, fd, data) ==
    IF ~Stream(fd) THEN [res |-> "EBADF", n |-> 0, conn |-> cn]
    ELSE LET c == fdt[fd][1]
             side == fdt[fd][2]
             peer == OtherSide(side)
             n == Min2(Len(data), Cap - Len(cn[c].in[peer]))
         IN IF side \in cn[c].nowrite \/ peer \in cn[c].gone \cup cn[c].noread
            THEN [res |-> "EPIPE", n |-> 0, conn |-> cn]
            ELSE IF n = 0 /\ data # <<>>
            THEN [res |-> "EAGAIN", n |-> 0, conn |-> cn]
            ELSE [res |-> "ok", n |-> n,
                  conn |-> [cn EXCEPT ![c].in[peer] = @ \o SubSeq(data, 1, n)]]

\* What close() leaves of the connections: the peer of a socket closed with
\* unread data sees a reset; connections nobody accepted are cut.
ClosedConns(file) ==
    IF file[1] \notin Conns THEN conn
    ELSE [c \in Conns |->
            IF c = file[1]
            THEN [conn[c] EXCEPT !.gone = @ \cup {file[2]},
                                 !.err = IF conn[c].in[file[2]] = <<>> THEN @
                                         ELSE @ \cup {OtherSide(file[2])}]
            ELSE IF conn[file[1]].st = "listen" /\ \E i \in DOMAIN backlog : backlog[i] = c
            THEN [conn[c] EXCEPT !.gone = @ \cup {"b"}]
            ELSE conn[c]]

\* The readiness of an open file.
Ready(file, dir) ==
    IF file = Timer THEN dir = "w" \/ timerfd.fires > 0
    ELSE LET c == file[1]
             side == file[2]
             peer == OtherSide(side)
             hup == peer \in conn[c].gone
         IN CASE conn[c].st = "listen" -> dir = "r" /\ backlog # <<>>
              [] conn[c].st = "new" -> TRUE
              [] conn[c].st = "syn" -> FALSE
              [] conn[c].st = "refused" -> TRUE
              [] OTHER ->
                   hup \/ IF dir = "r"
                          THEN \/ conn[c].in[side] # <<>>
                               \/ side \in conn[c].err \cup conn[c].noread
                               \/ peer \in conn[c].nowrite
                          ELSE \/ Len(conn[c].in[peer]) < Cap
                               \/ side \in conn[c].nowrite
                               \/ peer \in conn[c].noread

\* event_add() and event_del() of a set of waits [fd, dir, ...], at most one of
\* them per descriptor; others are the waits that stay.  Only the first event
\* of a direction reaches epoll, which then watches every direction that has
\* an event; so does the removal of the last one.
WaitedDirs(others, fd) == {w.dir : w \in {v \in others : v.fd = fd}}
Watch(watched, others, ws) ==
    [f \in Fds |-> IF \E w \in ws : w.fd = f /\ w.dir \notin WaitedDirs(others, f)
                  THEN WaitedDirs(others \cup ws, f) ELSE watched[f]]
Unwatch(watched, others, ws) ==
    [f \in Fds |-> IF \E w \in ws : w.fd = f /\ w.dir \notin WaitedDirs(others, f)
                  THEN IF fdt[f] = NoFile THEN {} ELSE WaitedDirs(others, f)
                  ELSE watched[f]]

\* The far side of connect(): the connection is made while somebody listens
\* with room in the backlog, and refused while nobody does.
Listening == \E f \in Fds : Stream(f) /\ conn[fdt[f][1]].st = "listen"
Establish(c) ==
    /\ conn[c].st = "syn" /\ "a" \notin conn[c].gone
    /\ Listening /\ Len(backlog) < Backlog
    /\ conn' = [conn EXCEPT ![c].st = "up"]
    /\ backlog' = Append(backlog, c)
    /\ UNCHANGED <<fdt, ep, timerfd>>
Refuse(c) ==
    /\ conn[c].st = "syn" /\ ~Listening
    /\ conn' = [conn EXCEPT ![c].st = "refused"]
    /\ UNCHANGED <<fdt, backlog, ep, timerfd>>
Expire ==
    /\ timerfd.armed
    /\ timerfd' = [armed |-> FALSE, fires |-> timerfd.fires + 1]
    /\ UNCHANGED <<fdt, conn, backlog, ep>>

DescriptorsInit ==
    /\ fdt = [f \in Fds |-> NoFile]
    /\ conn = [c \in Conns |-> NewConn]
    /\ backlog = <<>>
    /\ ep = [f \in Fds |-> {}]
    /\ timerfd = [armed |-> FALSE, fires |-> 0]
=============================================================================
