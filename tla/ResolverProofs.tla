---------------------------- MODULE ResolverProofs ---------------------------
(***************************************************************************)
(* Proofs about Resolver for every configuration, every set of replies a   *)
(* server may give, every depth of R->stack and every fault of the network.*)
(***************************************************************************)
EXTENDS Resolver, WellFoundedInduction, TLAPS

FrameFields == {"state", "which", "attempts", "query", "answer", "hints", "i", "saved", "j", "ns",
                "visited"}
QueryFields == {"qid", "qname", "qtype", "rd"}
PacketFields == {"qid", "qname", "qtype", "from", "an", "ns", "ar", "aa", "tc", "runt"}
SoFields == {"type", "old", "state", "qid", "query", "remote", "qout", "began", "answer", "apos"}

(***************************************************************************)
(* Whose answer: the socket carries the question of the frame on top of the*)
(* stack from dns_so_submit() until dns_so_check() is back with an answer; *)
(* the frames below it wait for a call to return.                          *)
(***************************************************************************)
IsPacket(p) == p = None \/ DOMAIN p = PacketFields

Shape ==
    /\ conf \in Confs
    /\ sp \in 0..(MaxDepth - 1) /\ DOMAIN stack = 0..(MaxDepth - 1)
    /\ \A k \in DOMAIN stack :
          /\ DOMAIN stack[k] = FrameFields /\ stack[k].state \in States
          /\ IsPacket(stack[k].answer) /\ IsPacket(stack[k].hints)
    /\ DOMAIN so = SoFields /\ DOMAIN query = {"began", "tries", "deadline", "result"}
    /\ DOMAIN udp = {"open", "peer", "queue", "icmp"}
    /\ DOMAIN tcp = {"st", "sent", "in", "replied", "eof"}
    /\ \E S : udp.queue \in Seq(S) /\ \A p \in S : DOMAIN p = PacketFields

HasQuery(f) == DOMAIN f.query = QueryFields

\* The states in which a frame is past BIND, or has been called with a query.
Asking == {"HINTS", "ITERATE", "FOREACH_NS", "RESOLV0_NS", "RESOLV1_NS", "FOREACH_A", "QUERY_A",
           "CNAME0_A", "CNAME1_A"}
Calling == {"RESOLV1_NS", "CNAME1_A", "SMART1_A"}

\* A packet of the network that answers the question of frame f; one that is not
\* of the network at all.
Local(p) == p = None \/ p.from = None
Owned(p, f) == Local(p) \/ (p.qname = f.query.qname /\ p.qtype = f.query.qtype)

Matches ==
    /\ DOMAIN so.answer = PacketFields
    /\ so.answer.qname = so.query.qname /\ so.answer.qtype = so.query.qtype

FrameInv ==
    /\ \A k \in 0..sp : Owned(stack[k].answer, stack[k]) /\ Owned(stack[k].hints, stack[k])
    /\ \A k \in 0..(sp - 1) : stack[k].state \in Calling
    /\ \A k \in 1..sp : HasQuery(stack[k])
    /\ \/ /\ HasQuery(stack[0])
          /\ stack[0].query.qname = SearchList[1] /\ stack[0].query.qtype = conf.qtype
       \/ /\ stack[0].state \notin Asking
          /\ Local(stack[0].answer) /\ Local(stack[0].hints)

AskInv ==
    /\ F.state = "QUERY_A" =>
          /\ so.query.qname = F.query.qname /\ so.query.qtype = F.query.qtype
          /\ so.state = "UDP_DONE" => Matches
    /\ pc \in {"check", "checked"} => F.state = "QUERY_A"
    /\ pc = "checked" /\ err = OK => Matches

(***************************************************************************)
(* How a query fails: without refusals and broken connections the only     *)
(* results of dns_so_check() are an answer and EAGAIN.  A stream carries   *)
(* the length and then the message, both of the question being asked.      *)
(***************************************************************************)
NoFault == faults \cap {"icmp", "tcp_refused", "tcp_eof"} = {}
Good(p) == DOMAIN p = PacketFields /\ ~p.runt /\ Verify(p)

Stream ==
    \/ /\ so.apos = 0
       /\ \/ tcp.in = <<>> /\ tcp.replied = 0
          \/ tcp.in = <<"length">> /\ tcp.replied = 1
          \/ tcp.in = <<"length", tcp.in[2]>> /\ Good(tcp.in[2]) /\ tcp.replied = 2
    \/ /\ so.apos = 1
       /\ \/ tcp.in = <<>> /\ tcp.replied = 1
          \/ tcp.in = <<tcp.in[1]>> /\ Good(tcp.in[1]) /\ tcp.replied = 2

TcpInv ==
    /\ so.state \notin {"TCP_RECV", "TCP_DONE"} => so.apos = 0
    /\ so.state \in {"TCP_CONN", "TCP_SEND"} => tcp.in = <<>> /\ tcp.replied = 0
    /\ so.state = "TCP_RECV" => Stream
    /\ F.state = "QUERY_A" /\ so.state = "TCP_DONE" => Good(so.answer)

LateInv ==
    NoFault =>
        /\ ~udp.icmp /\ ~tcp.eof /\ tcp.st # "refused"
        /\ err \in {OK, EAGAIN, "ENOBUFS"}
        /\ pc = "returned" /\ err = OK => stack[0].state = "DONE"
        /\ pc # "closed" => query.result = None
        /\ FailsOnlyLate

(***************************************************************************)
(* When a query ends: a wait is never longer than its timeout, and without *)
(* data every wait is as long as its timeout.                              *)
(***************************************************************************)
Silent == ~conf.all /\ ~log.data

TimeInv ==
    /\ now \in Nat /\ query.began = 0 /\ query.tries \in 0..MaxTries /\ query.deadline \in Nat
    /\ DOMAIN log = {"asked", "replied", "data"} /\ log.data \in BOOLEAN
    /\ now < conf.expire + PollTimeout(query.tries)
    /\ pc = "wait" =>
          /\ now <= query.deadline
          /\ query.deadline < conf.expire + PollTimeout(query.tries)
    /\ Silent =>
          /\ \A m \in 0..(query.tries - 1) : PollAt(m) < conf.expire
          /\ now <= PollAt(query.tries)
          /\ pc = "wait" => query.deadline = PollAt(query.tries)
          /\ pc \notin {"wait", "closed"} => now = PollAt(query.tries)


-----------------------------------------------------------------------------
(***************************************************************************)
(* Most cases of dns_res_exec() only change the frame on top of the stack: *)
(* they keep its query, and the packets of the network it holds.           *)
(***************************************************************************)
Kept(p, old) ==
    \/ Local(p) \/ p = old
    \/ old # None /\ p.from = old.from /\ p.qname = old.qname /\ p.qtype = old.qtype

Moves(f) ==
    /\ DOMAIN f = FrameFields /\ f.state \in States \ {"QUERY_A"} /\ f.query = F.query
    /\ IsPacket(f.answer) /\ IsPacket(f.hints)
    /\ Kept(f.answer, F.answer) /\ Kept(f.hints, F.hints)
    /\ sp = 0 /\ F.state \notin Asking => f.state \notin Asking

ResolverInv == Shape /\ FrameInv /\ AskInv /\ TcpInv /\ LateInv

LEMMA KeptOwned ==
  ASSUME NEW p, NEW old, NEW f, NEW g, Kept(p, old), Owned(old, f), g.query = f.query
  PROVE  Owned(p, g) /\ (Local(old) => Local(p))
  BY DEF Kept, Owned, Local

\* The frame on top of the stack is replaced, the others stay.
LEMMA TopReplaced ==
  ASSUME Shape, NEW f, Becomes(f), UNCHANGED <<conf, so, udp, tcp, query>>,
         DOMAIN f = FrameFields, f.state \in States, IsPacket(f.answer), IsPacket(f.hints)
  PROVE  /\ Shape' /\ sp' = sp /\ F' = f /\ SearchList' = SearchList
         /\ \A k \in DOMAIN stack : stack'[k] = IF k = sp THEN f ELSE stack[k]
  BY DEF Shape, Becomes, F, SearchList

LEMMA MovesInv ==
  ASSUME ResolverInv, NEW f, Moves(f), Becomes(f), Running, pc = "exec",
         \/ pc' = "exec" /\ err' = err
         \/ pc' = "returned" /\ err' = "ENOBUFS"
  PROVE  ResolverInv'
  <1> USE DEF ResolverInv
  <1>1. /\ Shape' /\ sp' = sp /\ F' = f /\ SearchList' = SearchList /\ conf' = conf /\ sp \in 0..(MaxDepth - 1)
        /\ \A k \in 0..(MaxDepth - 1) : stack'[k] = IF k = sp THEN f ELSE stack[k]
    BY TopReplaced, Zenon DEF Moves, Running, Shape
  <1>2. ASSUME NEW k \in 0..sp
        PROVE  Owned(stack'[k].answer, stack'[k]) /\ Owned(stack'[k].hints, stack'[k])
    <2>1. CASE k = sp
      BY <1>1, <2>1, KeptOwned DEF Moves, F, FrameInv
    <2>2. CASE k # sp
      BY <1>1, <2>2, ResolverAssumption DEF FrameInv
    <2>3. QED
      BY <2>1, <2>2
  <1>3. \A k \in 0..(sp - 1) : stack'[k].state \in Calling
    BY <1>1, ResolverAssumption DEF FrameInv
  <1>4. \A k \in 1..sp : HasQuery(stack'[k])
    BY <1>1, ResolverAssumption DEF FrameInv, HasQuery, Moves, F
  <1>5. \/ /\ HasQuery(stack'[0])
           /\ stack'[0].query.qname = SearchList[1] /\ stack'[0].query.qtype = conf.qtype
        \/ /\ stack'[0].state \notin Asking
           /\ Local(stack'[0].answer) /\ Local(stack'[0].hints)
    <2>1. CASE sp = 0
      BY <1>1, <2>1, KeptOwned, ResolverAssumption DEF FrameInv, HasQuery, Moves, F
    <2>2. CASE sp # 0
      BY <1>1, <2>2, ResolverAssumption DEF FrameInv, HasQuery
    <2>3. QED
      BY <2>1, <2>2, Zenon
  <1>6. FrameInv'
    BY <1>1, <1>2, <1>3, <1>4, <1>5, Zenon DEF FrameInv, HasQuery, Owned, Local
  <1>7. F'.state # "QUERY_A"
    BY <1>1, Zenon DEF Moves
  <1>8. AskInv'
    BY <1>7, Zenon DEF AskInv
  <1>9. TcpInv'
    BY <1>7, Zenon DEF TcpInv, Stream, Good, Verify, Running
  <1>10. LateInv'
    BY Zenon DEF LateInv, NoFault, FailsOnlyLate, Running, OK
  <1>11. QED
    BY <1>1, <1>6, <1>8, <1>9, <1>10, Zenon


\* A change of state alone.
LEMMA GotoMoves ==
  ASSUME Shape, NEW s \in States \ {"QUERY_A"}, Goto(s),
         sp = 0 /\ F.state \notin Asking => s \notin Asking
  PROVE  \E f : Moves(f) /\ Becomes(f)
  <1> DEFINE f == [F EXCEPT !.state = s]
  <1>1. DOMAIN F = FrameFields /\ IsPacket(F.answer) /\ IsPacket(F.hints)
    BY DEF Shape, F
  <1>2. Moves(f)
    BY <1>1 DEF Moves, Kept, FrameFields
  <1>3. Becomes(f)
    BY DEF Goto, Becomes, F
  <1>4. QED
    BY <1>2, <1>3, Zenon

\* A server has been tried.
LEMMA TriedMoves ==
  ASSUME Shape, F.state \in Asking
  PROVE  Moves(Tried("FOREACH_NS"))
  <1>1. DOMAIN F = FrameFields /\ IsPacket(F.answer) /\ IsPacket(F.hints)
    BY Zenon DEF Shape, F
  <1>2. QED
    BY <1>1, Zenon DEF Moves, Kept, FrameFields, Tried, States

\* A packet that dns_res_exec() makes itself.
LEMMA MadeLocal ==
  ASSUME NEW q, NEW an, NEW ns, NEW ar
  PROVE  Local(MkPacket(q, an, ns, ar)) /\ IsPacket(MkPacket(q, an, ns, ar))
  BY DEF Local, MkPacket, IsPacket, PacketFields

\* The cases that only change the frame on top of the stack.
ExecMoves ==
    \/ ExecInit \/ ExecSwitch \/ ExecFile \/ ExecHints \/ ExecIterate \/ ExecForeachNs
    \/ ExecCname1 \/ ExecFinish \/ ExecSmart1 \/ ExecServfail

LEMMA ExecInitMoves ==
  ASSUME Shape, ExecInit PROVE \E f : Moves(f) /\ Becomes(f)
  <1> DEFINE glue == IF sp = 0 THEN None ELSE Glue(F.query)
             f == [F EXCEPT !.answer = glue,
                            !.state = IF Has(glue.an, F.query.qname, F.query.qtype)
                                      THEN "FINISH" ELSE "CNAME0_A"]
  <1>1. DOMAIN F = FrameFields /\ IsPacket(F.answer) /\ IsPacket(F.hints)
    BY DEF Shape, F
  <1>2. CASE glue = None
    <2>1. Goto("SWITCH")
      BY <1>2, Zenon DEF ExecInit
    <2>2. QED
      BY <2>1, GotoMoves, Zenon DEF States, Asking
  <1>3. CASE glue # None
    <2>1. Becomes(f) /\ sp # 0
      BY <1>3, Zenon DEF ExecInit
    <2>2. Local(glue) /\ IsPacket(glue)
      BY <1>3, MadeLocal, Zenon DEF Glue
    <2> HIDE DEF glue
    <2>3. Moves(f)
      BY <1>1, <2>1, <2>2, Zenon DEF Moves, Kept, FrameFields, States
    <2>4. QED
      BY <2>1, <2>3, Zenon
  <1>4. QED
    BY <1>2, <1>3, Zenon

LEMMA ExecFileMoves ==
  ASSUME Shape, ExecFile PROVE \E f : Moves(f) /\ Becomes(f)
  <1>1. DOMAIN F = FrameFields /\ IsPacket(F.answer) /\ IsPacket(F.hints)
    BY DEF Shape, F
  <1>2. PICK p, s : /\ Becomes([F EXCEPT !.answer = p, !.state = s])
                    /\ Local(p) /\ IsPacket(p) /\ s \in {"SWITCH", "FINISH"}
    <2>1. FileAnswer = None \/ \E q : FileAnswer = HostsAnswer(q)
      BY Zenon DEF FileAnswer
    <2>2. \A q : Local(HostsAnswer(q)) /\ IsPacket(HostsAnswer(q))
      BY MadeLocal, Zenon DEF HostsAnswer
    <2>3. Local(FileAnswer) /\ IsPacket(FileAnswer)
      BY <2>1, <2>2, Zenon DEF Local, IsPacket
    <2>4. QED
      BY <2>3, Zenon DEF ExecFile
  <1>3. Moves([F EXCEPT !.answer = p, !.state = s])
    BY <1>1, <1>2, Zenon DEF Moves, Kept, FrameFields, States, Asking
  <1>4. QED
    BY <1>2, <1>3, Zenon

LEMMA ExecFileFullInv == ASSUME ResolverInv, ExecFileFull PROVE ResolverInv'
  <1>1. DOMAIN F = FrameFields /\ IsPacket(F.hints) /\ F.state = "FILE"
    BY DEF ResolverInv, Shape, F, ExecFileFull, At
  <1>2. Moves([F EXCEPT !.answer = None])
    BY <1>1, Zenon DEF Moves, Kept, FrameFields, States, Asking, IsPacket, Local
  <1>3. QED
    BY <1>2, MovesInv, Zenon DEF ExecFileFull, At

LEMMA ExecHintsMoves ==
  ASSUME Shape, ExecHints PROVE \E f : Moves(f) /\ Becomes(f)
  <1>1. DOMAIN F = FrameFields /\ IsPacket(F.answer) /\ IsPacket(F.hints)
    BY DEF Shape, F
  <1>2. PICK p \in HintsPackets(F.query) : Becomes([F EXCEPT !.hints = p, !.state = "ITERATE"])
    BY Zenon DEF ExecHints
  <1>3. Local(p) /\ IsPacket(p)
    <2>1. \E ns, ar : p = MkPacket(F.query, <<>>, ns, ar)
      BY <1>2, Zenon DEF HintsPackets
    <2>2. QED
      BY <2>1, MadeLocal, Zenon
  <1>4. Moves([F EXCEPT !.hints = p, !.state = "ITERATE"])
    BY <1>1, <1>3, Zenon DEF Moves, Kept, FrameFields, States, ExecHints, At, Asking
  <1>5. QED
    BY <1>2, <1>4, Zenon

LEMMA ExecForeachNsMoves ==
  ASSUME Shape, ExecForeachNs PROVE \E f : Moves(f) /\ Becomes(f)
  <1>1. /\ DOMAIN F = FrameFields /\ IsPacket(F.answer) /\ IsPacket(F.hints)
        /\ F.state = "FOREACH_NS"
    BY DEF Shape, F, ExecForeachNs, At
  <1>2. PICK seed : LET g == GrepNs(F.hints, F.i, seed)
                        f == [F EXCEPT !.saved = F.i, !.i = g.it]
                    IN  Becomes(IF g.ns = 0
                                THEN [f EXCEPT !.attempts = @ + 1,
                                        !.state = IF F.attempts + 1 < conf.attempts
                                                  THEN "ITERATE" ELSE "SWITCH"]
                                ELSE [f EXCEPT !.ns = g.ns, !.j = 0, !.state = "FOREACH_A"])
    BY Zenon DEF ExecForeachNs
  <1> DEFINE g == GrepNs(F.hints, F.i, seed)
             f == [F EXCEPT !.saved = F.i, !.i = g.it]
             next == IF g.ns = 0
                     THEN [f EXCEPT !.attempts = @ + 1,
                             !.state = IF F.attempts + 1 < conf.attempts THEN "ITERATE" ELSE "SWITCH"]
                     ELSE [f EXCEPT !.ns = g.ns, !.j = 0, !.state = "FOREACH_A"]
  <1> HIDE DEF g
  <1>3. Moves(next)
    BY <1>1, Zenon DEF Moves, Kept, FrameFields, States, Asking
  <1>4. Becomes(next)
    BY <1>2, Zenon DEF g
  <1>5. QED
    BY <1>3, <1>4, Zenon


\* More records in a section of a packet.
LEMMA MoreRecords ==
  ASSUME NEW p, IsPacket(p), NEW ar
  PROVE  /\ IsPacket([p EXCEPT !.ar = ar])
         /\ Kept([p EXCEPT !.ar = ar], p)
  <1>1. CASE p = None
    BY <1>1, Zenon DEF IsPacket, Kept, None
  <1>2. CASE p # None
    BY <1>2, Zenon DEF IsPacket, Kept, PacketFields
  <1>3. QED
    BY <1>1, <1>2, Zenon

LEMMA ExecSwitchMoves ==
  ASSUME Shape, ExecSwitch PROVE \E f : Moves(f) /\ Becomes(f)
  <1>1. DOMAIN F = FrameFields /\ IsPacket(F.answer) /\ IsPacket(F.hints)
    BY DEF Shape, F
  <1>2. PICK n, s : Becomes([F EXCEPT !.which = n, !.state = s]) /\ s \in {"SERVFAIL", "BIND", "FILE"}
    BY Zenon DEF ExecSwitch
  <1>3. Moves([F EXCEPT !.which = n, !.state = s])
    BY <1>1, <1>2, Zenon DEF Moves, Kept, FrameFields, States, Asking
  <1>4. QED
    BY <1>2, <1>3, Zenon

LEMMA ExecIterateMoves ==
  ASSUME Shape, ExecIterate PROVE \E f : Moves(f) /\ Becomes(f)
  <1>1. DOMAIN F = FrameFields /\ IsPacket(F.answer) /\ IsPacket(F.hints)
    BY DEF Shape, F
  <1>2. PICK it : Becomes([F EXCEPT !.i = it, !.saved = it, !.visited = {}, !.state = "FOREACH_NS"])
    BY Zenon DEF ExecIterate
  <1>3. Moves([F EXCEPT !.i = it, !.saved = it, !.visited = {}, !.state = "FOREACH_NS"])
    BY <1>1, Zenon DEF Moves, Kept, FrameFields, States, Asking, ExecIterate, At
  <1>4. QED
    BY <1>2, <1>3, Zenon

LEMMA ExecCname1Moves ==
  ASSUME Shape, ExecCname1 PROVE \E f : Moves(f) /\ Becomes(f)
  <1> DEFINE p == Merge(F.answer, stack[sp + 1].answer)
  <1>1. DOMAIN F = FrameFields /\ IsPacket(F.answer) /\ IsPacket(F.hints)
    BY DEF Shape, F
  <1>2. Local(p) /\ IsPacket(p)
    BY MadeLocal, Zenon DEF Merge
  <1>3. Becomes([F EXCEPT !.answer = p, !.state = "FINISH"])
    BY DEF ExecCname1
  <1> HIDE DEF p
  <1>4. Moves([F EXCEPT !.answer = p, !.state = "FINISH"])
    BY <1>1, <1>2, Zenon DEF Moves, Kept, FrameFields, States, Asking
  <1>5. QED
    BY <1>3, <1>4, Zenon

LEMMA ExecServfailMoves ==
  ASSUME Shape, ExecServfail PROVE \E f : Moves(f) /\ Becomes(f)
  <1> DEFINE p == MkPacket(conf, <<>>, <<>>, <<>>)
  <1>1. DOMAIN F = FrameFields /\ IsPacket(F.answer) /\ IsPacket(F.hints)
    BY DEF Shape, F
  <1>2. Local(p) /\ IsPacket(p)
    BY MadeLocal, Zenon
  <1>3. Becomes([F EXCEPT !.answer = p, !.state = "DONE"])
    BY DEF ExecServfail
  <1> HIDE DEF p
  <1>4. Moves([F EXCEPT !.answer = p, !.state = "DONE"])
    BY <1>1, <1>2, Zenon DEF Moves, Kept, FrameFields, States, Asking
  <1>5. QED
    BY <1>3, <1>4, Zenon

LEMMA ExecSmart1Moves ==
  ASSUME Shape, ExecSmart1 PROVE \E f : Moves(f) /\ Becomes(f)
  <1>1. DOMAIN F = FrameFields /\ IsPacket(F.answer) /\ IsPacket(F.hints)
    BY DEF Shape, F
  <1>2. PICK ar : Becomes([F EXCEPT !.answer.ar = ar, !.state = "SMART0_A"])
    BY Zenon DEF ExecSmart1
  <1> DEFINE p == [F.answer EXCEPT !.ar = ar]
             f == [F EXCEPT !.answer = p, !.state = "SMART0_A"]
  <1>3. IsPacket(p) /\ Kept(p, F.answer)
    BY <1>1, MoreRecords, Zenon
  <1>4. Becomes(f)
    BY <1>2, Zenon
  <1> HIDE DEF p
  <1>5. Moves(f)
    BY <1>1, <1>3, Zenon DEF Moves, Kept, FrameFields, States, Asking
  <1>6. QED
    BY <1>4, <1>5, Zenon

LEMMA ExecMovesInv == ASSUME ResolverInv, ExecMoves PROVE ResolverInv'
  <1>1. Shape
    BY Zenon DEF ResolverInv
  <1>2. CASE ExecFinish
    <2>1. F.state = "FINISH" /\ \E s \in {"DONE", "SMART0_A"} : Goto(s)
      BY <1>2, Zenon DEF ExecFinish, At
    <2>2. \E f : Moves(f) /\ Becomes(f)
      BY <1>1, <2>1, GotoMoves, Zenon DEF States, Asking
    <2>3. QED
      BY <1>2, <2>2, MovesInv, Zenon DEF ExecFinish, At
  <1>3. CASE ExecInit \/ ExecSwitch \/ ExecFile \/ ExecHints \/ ExecIterate
    <2>1. \E f : Moves(f) /\ Becomes(f)
      BY <1>1, <1>3, ExecInitMoves, ExecSwitchMoves, ExecFileMoves, ExecHintsMoves, ExecIterateMoves, Zenon
    <2>2. Running /\ Stays /\ pc = "exec"
      BY <1>3, Zenon DEF ExecInit, ExecSwitch, ExecFile, ExecHints, ExecIterate, At
    <2>3. QED
      BY <2>1, <2>2, MovesInv, Zenon DEF Stays
  <1>4. CASE ExecForeachNs \/ ExecCname1 \/ ExecSmart1 \/ ExecServfail
    <2>1. \E f : Moves(f) /\ Becomes(f)
      BY <1>1, <1>4, ExecForeachNsMoves, ExecCname1Moves, ExecSmart1Moves, ExecServfailMoves, Zenon
    <2>2. Running /\ Stays /\ pc = "exec"
      BY <1>4, Zenon DEF ExecForeachNs, ExecCname1, ExecSmart1, ExecServfail, At
    <2>3. QED
      BY <2>1, <2>2, MovesInv DEF Stays
  <1>5. QED
    BY <1>2, <1>3, <1>4, Zenon DEF ExecMoves


\* A frame calls another one: it waits, and the new one has a query of its own.
LEMMA CallInv ==
  ASSUME ResolverInv, NEW s \in Calling, NEW q, DOMAIN q = QueryFields, Call(s, q), ~Deepest,
         Running, pc = "exec", pc' = "exec", err' = err,
         sp = 0 /\ F.state \notin Asking => s \notin Asking
  PROVE  ResolverInv'
  <1> USE DEF ResolverInv
  <1> DEFINE f == [F EXCEPT !.state = s]
             new == [NewFrame EXCEPT !.query = q]
  <1>1. /\ sp \in 0..(MaxDepth - 1) /\ sp + 1 \in 0..(MaxDepth - 1) /\ sp' = sp + 1
        /\ SearchList' = SearchList /\ conf' = conf
    BY ResolverAssumption DEF Shape, Deepest, Call, SearchList, Running
  <1>2. /\ DOMAIN stack' = 0..(MaxDepth - 1)
        /\ \A k \in 0..(MaxDepth - 1) :
              stack'[k] = IF k = sp + 1 THEN new ELSE IF k = sp THEN f ELSE stack[k]
    BY <1>1, Zenon DEF Call, Shape, F
  <1>3. /\ DOMAIN f = FrameFields /\ f.state = s /\ f.query = F.query /\ f.answer = F.answer
        /\ f.hints = F.hints /\ IsPacket(f.answer) /\ IsPacket(f.hints)
    BY DEF Shape, F, FrameFields
  <1>4. /\ DOMAIN new = FrameFields /\ new.state = "INIT" /\ new.query = q
        /\ new.answer = None /\ new.hints = None /\ IsPacket(None) /\ Local(None)
    BY Zenon DEF NewFrame, FrameFields, IsPacket, Local
  <1> HIDE DEF f, new
  <1>5. Shape'
    BY <1>1, <1>2, <1>3, <1>4, ZenonT(30) DEF Shape, Running, Calling, States
  <1>6. ASSUME NEW k \in 0..(sp + 1)
        PROVE  Owned(stack'[k].answer, stack'[k]) /\ Owned(stack'[k].hints, stack'[k])
    <2>1. CASE k = sp + 1
      BY <1>1, <1>2, <1>4, <2>1, Zenon DEF Owned
    <2>2. CASE k = sp
      BY <1>1, <1>2, <1>3, <2>2 DEF Owned, FrameInv, F
    <2>3. CASE k \in 0..(sp - 1)
      BY <1>1, <1>2, <2>3, ResolverAssumption DEF FrameInv
    <2>4. QED
      BY <1>1, <2>1, <2>2, <2>3
  <1>7. \A k \in 0..sp : stack'[k].state \in Calling
    BY <1>1, <1>2, <1>3, ResolverAssumption DEF FrameInv
  <1>8. \A k \in 1..(sp + 1) : HasQuery(stack'[k])
    BY <1>1, <1>2, <1>3, <1>4, ResolverAssumption DEF FrameInv, HasQuery, F
  <1>9. \/ /\ HasQuery(stack'[0])
           /\ stack'[0].query.qname = SearchList[1] /\ stack'[0].query.qtype = conf.qtype
        \/ /\ stack'[0].state \notin Asking
           /\ Local(stack'[0].answer) /\ Local(stack'[0].hints)
    BY <1>1, <1>2, <1>3, ResolverAssumption DEF FrameInv, HasQuery, F
  <1>10. FrameInv'
    BY <1>1, <1>6, <1>7, <1>8, <1>9 DEF FrameInv, HasQuery, Owned, Local
  <1>11. F'.state # "QUERY_A"
    BY <1>1, <1>2, <1>4, Zenon DEF F
  <1>12. AskInv' /\ TcpInv'
    BY <1>11, Zenon DEF AskInv, TcpInv, Stream, Good, Verify, Running
  <1>13. LateInv'
    BY Zenon DEF LateInv, NoFault, FailsOnlyLate, Running
  <1>14. QED
    BY <1>5, <1>10, <1>12, <1>13, Zenon

LEMMA QueryMade == ASSUME NEW name, NEW type, NEW rd PROVE DOMAIN MkQuery(name, type, rd) = QueryFields
  BY DEF MkQuery, QueryFields

LEMMA ExecCallsInv ==
  ASSUME ResolverInv, ExecResolv0 \/ ExecCname0 \/ ExecSmart0
  PROVE  ResolverInv'
  <1>1. Shape
    BY DEF ResolverInv
  <1>2. /\ pc = "exec" /\ pc' = "exec" /\ err' = err /\ Running
    BY Zenon DEF ExecResolv0, ExecCname0, ExecSmart0, At, Stays
  <1>3. CASE ExecResolv0
    <2>1. F.state = "RESOLV0_NS"
      BY <1>3, Zenon DEF ExecResolv0, At
    <2>2. CASE Deepest
      <3>1. Becomes(Tried("FOREACH_NS")) /\ Moves(Tried("FOREACH_NS"))
        BY <1>1, <1>3, <2>1, <2>2, TriedMoves, Zenon DEF ExecResolv0, Asking
      <3>2. QED
        BY <1>2, <3>1, MovesInv, Zenon
    <2>3. CASE ~Deepest
      <3>1. Call("RESOLV1_NS", MkQuery(NsHost, "A", FALSE))
        BY <1>3, <2>3, Zenon DEF ExecResolv0
      <3>2. QED
        BY <1>2, <2>1, <2>3, <3>1, CallInv, QueryMade, Zenon DEF Calling, Asking
    <2>4. QED
      BY <2>2, <2>3, Zenon
  <1>4. CASE ExecCname0
    <2>1. F.state = "CNAME0_A"
      BY <1>4, Zenon DEF ExecCname0, At
    <2>2. CASE Deepest
      <3>1. Goto("FINISH")
        BY <1>4, <2>2, Zenon DEF ExecCname0
      <3>2. \E f : Moves(f) /\ Becomes(f)
        BY <1>1, <3>1, GotoMoves, Zenon DEF States, Asking
      <3>3. QED
        BY <1>2, <3>2, MovesInv, Zenon
    <2>3. CASE ~Deepest
      <3>1. \E name : Call("CNAME1_A", MkQuery(name, F.query.qtype, FALSE))
        BY <1>4, <2>3, Zenon DEF ExecCname0
      <3>2. QED
        BY <1>2, <2>1, <2>3, <3>1, CallInv, QueryMade, Zenon DEF Calling, Asking
    <2>4. QED
      BY <2>2, <2>3
  <1>5. CASE ExecSmart0
    <2>1. F.state = "SMART0_A"
      BY <1>5, Zenon DEF ExecSmart0, At
    <2>2. \/ Goto("DONE")
          \/ ~Deepest /\ \E name : Call("SMART1_A", MkQuery(name, "A", ~conf.recurse))
      BY <1>5, Zenon DEF ExecSmart0
    <2>3. CASE Goto("DONE")
      <3>1. \E f : Moves(f) /\ Becomes(f)
        BY <1>1, <2>3, GotoMoves, Zenon DEF States, Asking
      <3>2. QED
        BY <1>2, <3>1, MovesInv
    <2>4. QED
      BY <1>2, <2>1, <2>2, <2>3, CallInv, QueryMade, Zenon DEF Calling, Asking
  <1>6. QED
    BY <1>3, <1>4, <1>5, Zenon


\* What the frames need of a new frame on top of the stack.
Fits(f) ==
    /\ DOMAIN f = FrameFields /\ f.state \in States /\ IsPacket(f.answer) /\ IsPacket(f.hints)
    /\ Owned(f.answer, f) /\ Owned(f.hints, f)
    /\ sp > 0 => HasQuery(f)
    /\ sp = 0 => \/ HasQuery(f) /\ f.query.qname = SearchList[1] /\ f.query.qtype = conf.qtype
                 \/ f.state \notin Asking /\ Local(f.answer) /\ Local(f.hints)

LEMMA FitsInv ==
  ASSUME Shape, FrameInv, NEW f, Fits(f), Becomes(f), UNCHANGED <<conf, udp, tcp, query>>,
         DOMAIN so' = SoFields
  PROVE  Shape' /\ FrameInv' /\ F' = f /\ sp' = sp
  <1>1. /\ sp' = sp /\ SearchList' = SearchList /\ sp \in 0..(MaxDepth - 1)
        /\ \A k \in 0..(MaxDepth - 1) : stack'[k] = IF k = sp THEN f ELSE stack[k]
    BY Zenon DEF Shape, Becomes, SearchList
  <1>2. Shape' /\ F' = f
    BY Zenon DEF Shape, Becomes, Fits, F
  <1>3. \A k \in 0..sp : Owned(stack'[k].answer, stack'[k]) /\ Owned(stack'[k].hints, stack'[k])
    BY <1>1, ResolverAssumption DEF FrameInv, Fits
  <1>4. \A k \in 0..(sp - 1) : stack'[k].state \in Calling
    BY <1>1, ResolverAssumption DEF FrameInv
  <1>5. \A k \in 1..sp : HasQuery(stack'[k])
    BY <1>1, ResolverAssumption DEF FrameInv, Fits
  <1>6. \/ /\ HasQuery(stack'[0])
           /\ stack'[0].query.qname = SearchList[1] /\ stack'[0].query.qtype = conf.qtype
        \/ /\ stack'[0].state \notin Asking
           /\ Local(stack'[0].answer) /\ Local(stack'[0].hints)
    BY <1>1, ResolverAssumption DEF FrameInv, Fits
  <1>7. FrameInv'
    BY <1>1, <1>3, <1>4, <1>5, <1>6, Zenon DEF FrameInv, HasQuery, Owned, Local
  <1>8. QED
    BY <1>1, <1>2, <1>7, Zenon

\* What the frame on top of the stack is.
LEMMA TopFrame ==
  ASSUME Shape, FrameInv
  PROVE  Fits(F) /\ sp \in Nat
  BY ResolverAssumption DEF Shape, FrameInv, Fits, F

LEMMA ExecBindInv == ASSUME ResolverInv, ExecBind PROVE ResolverInv'
  <1> USE DEF ResolverInv
  <1> DEFINE q == MkQuery(SearchList[1], conf.qtype, ~conf.recurse)
             f == IF sp > 0 THEN [F EXCEPT !.state = "HINTS"]
                  ELSE [F EXCEPT !.state = "HINTS", !.query = q]
  <1>1. Becomes(f) /\ Running /\ Stays /\ pc = "exec" /\ F.state = "BIND"
    BY Zenon DEF ExecBind, At
  <1>2. DOMAIN q = QueryFields /\ q.qname = SearchList[1] /\ q.qtype = conf.qtype
    BY QueryMade, Zenon DEF MkQuery
  <1> HIDE DEF q
  <1>3. Fits(f) /\ f.state = "HINTS"
    <2>1. Fits(F) /\ sp \in Nat
      BY TopFrame, Zenon
    <2>2. CASE sp > 0
      BY <2>1, <2>2 DEF Fits, FrameFields, States, HasQuery, Owned
    <2>3. CASE sp = 0
      <3>1. /\ f.answer = F.answer /\ f.hints = F.hints /\ f.query = q /\ f.state = "HINTS"
            /\ DOMAIN f = FrameFields
        BY <2>1, <2>3 DEF Fits, FrameFields
      <3>2. Owned(f.answer, f) /\ Owned(f.hints, f)
        BY <1>2, <2>1, <2>3, <3>1, Zenon DEF Fits, Owned
      <3> HIDE DEF f
      <3>3. QED
        BY <1>2, <2>1, <2>3, <3>1, <3>2, Zenon DEF Fits, HasQuery, States
    <2>4. QED
      BY <2>1, <2>2, <2>3
  <1> HIDE DEF f
  <1>4. Shape' /\ FrameInv' /\ F' = f
    BY <1>1, <1>3, FitsInv, Zenon DEF Running, Shape
  <1>5. AskInv' /\ TcpInv'
    BY <1>1, <1>3, <1>4, Zenon DEF AskInv, TcpInv, Stream, Good, Verify, Running, Stays
  <1>6. LateInv'
    BY <1>1, Zenon DEF LateInv, NoFault, FailsOnlyLate, Running, Stays
  <1>7. QED
    BY <1>4, <1>5, <1>6, Zenon

LEMMA ExecForeachAInv == ASSUME ResolverInv, ExecForeachA PROVE ResolverInv'
  <1> USE DEF ResolverInv
  <1>1. /\ pc = "exec" /\ F.state = "FOREACH_A" /\ UNCHANGED <<udp, tcp, faults, now, conf, query, pc, err>>
    BY Zenon DEF ExecForeachA, At
  <1>2. Fits(F) /\ HasQuery(F)
    <2>1. Fits(F) /\ sp \in Nat
      BY TopFrame
    <2>2. QED
      BY <1>1, <2>1 DEF Fits, Asking
  <1>3. CASE \E q, j, remote : /\ q = F.query \/ \E id : q = [F.query EXCEPT !.qid = id]
                               /\ Becomes([F EXCEPT !.query = q, !.j = j, !.state = "QUERY_A"])
                               /\ so' = Submit(q, remote)
    <2>1. PICK q, j, remote : /\ q = F.query \/ \E id : q = [F.query EXCEPT !.qid = id]
                              /\ Becomes([F EXCEPT !.query = q, !.j = j, !.state = "QUERY_A"])
                              /\ so' = Submit(q, remote)
      BY <1>3, Zenon
    <2> DEFINE f == [F EXCEPT !.query = q, !.j = j, !.state = "QUERY_A"]
    <2>2. DOMAIN q = QueryFields /\ q.qname = F.query.qname /\ q.qtype = F.query.qtype
      BY <1>2, <2>1, Zenon DEF HasQuery, QueryFields
    <2>3. /\ f.answer = F.answer /\ f.hints = F.hints /\ f.query = q /\ f.state = "QUERY_A"
          /\ DOMAIN f = FrameFields
      BY <1>2, Zenon DEF Fits, FrameFields
    <2> HIDE DEF f
    <2>4. Fits(f)
      BY <1>1, <1>2, <2>2, <2>3, Zenon DEF Fits, HasQuery, Owned, States, Asking
    <2>5. /\ DOMAIN so' = SoFields /\ so'.query = q /\ so'.apos = 0 /\ so'.state \in {"TCP_INIT", "UDP_INIT"}
      BY <2>1, Zenon DEF Submit, SoReset, SoFields
    <2>6. Shape' /\ FrameInv' /\ F' = f
      BY <1>1, <2>1, <2>4, <2>5, FitsInv, Zenon DEF f
    <2>7. AskInv' /\ TcpInv'
      BY <1>1, <2>2, <2>3, <2>5, <2>6, Zenon DEF AskInv, TcpInv
    <2>8. LateInv'
      BY <1>1, Zenon DEF LateInv, NoFault, FailsOnlyLate
    <2>9. QED
      BY <2>6, <2>7, <2>8
  <1>4. CASE so' = so /\ (Goto("RESOLV0_NS") \/ Becomes(Tried("FOREACH_NS")))
    <2>1. \E f : Moves(f) /\ Becomes(f)
      BY <1>1, <1>4, GotoMoves, TriedMoves, Zenon DEF States, Asking
    <2>2. Running
      BY <1>1, <1>4, Zenon DEF Running, ExecForeachA
    <2>3. QED
      BY <1>1, <2>1, <2>2, MovesInv, Zenon
  <1>5. QED
    <2> DEFINE as == Named(Records(F.hints), NsHost, "A")
               remote == [addr |-> as[F.j + 1].data, port |-> IF sp = 0 THEN HintsPort(as[F.j + 1].data) ELSE 53]
               fresh == FreshQIds(InUse)
               q == IF F.query.qid # 0 THEN F.query
                    ELSE [F.query EXCEPT !.qid = CHOOSE n \in fresh : \A m \in fresh : n <= m]
    <2>1. \/ Becomes([F EXCEPT !.query = q, !.j = F.j + 1, !.state = "QUERY_A"]) /\ so' = Submit(q, remote)
          \/ so' = so /\ (Goto("RESOLV0_NS") \/ Becomes(Tried("FOREACH_NS")))
      BY DEF ExecForeachA
    <2>2. q = F.query \/ \E id : q = [F.query EXCEPT !.qid = id]
      BY Zenon
    <2> HIDE DEF q, remote
    <2>3. QED
      BY <1>3, <1>4, <2>1, <2>2, Zenon


LEMMA ExecResolv1Inv == ASSUME ResolverInv, ExecResolv1 PROVE ResolverInv'
  <1> USE DEF ResolverInv
  <1>1. pc = "exec" /\ F.state = "RESOLV1_NS" /\ Running
    BY Zenon DEF ExecResolv1, At
  <1>2. CASE Becomes(Tried("FOREACH_NS")) /\ UNCHANGED <<pc, err>>
    <2>1. Moves(Tried("FOREACH_NS"))
      BY <1>1, TriedMoves, Zenon DEF Asking
    <2>2. QED
      BY <1>1, <1>2, <2>1, MovesInv, Zenon
  <1>3. CASE UNCHANGED <<pc, err>> /\ \E ar : Becomes([F EXCEPT !.hints.ar = ar, !.i = F.saved, !.state = "FOREACH_NS"])
    <2>1. PICK ar : Becomes([F EXCEPT !.hints.ar = ar, !.i = F.saved, !.state = "FOREACH_NS"])
      BY <1>3, Zenon
    <2> DEFINE p == [F.hints EXCEPT !.ar = ar]
               f == [F EXCEPT !.hints = p, !.i = F.saved, !.state = "FOREACH_NS"]
    <2>2. DOMAIN F = FrameFields /\ IsPacket(F.answer) /\ IsPacket(F.hints)
      BY DEF Shape, F
    <2>3. IsPacket(p) /\ Kept(p, F.hints)
      BY <2>2, MoreRecords, Zenon
    <2>4. Becomes(f)
      BY <2>1, Zenon
    <2> HIDE DEF p
    <2>5. Moves(f)
      BY <1>1, <2>2, <2>3, Zenon DEF Moves, Kept, FrameFields, States, Asking
    <2>6. QED
      BY <1>1, <1>3, <2>4, <2>5, MovesInv, Zenon
  <1>4. CASE pc' = "returned" /\ err' = "ENOBUFS" /\ UNCHANGED <<stack, sp>>
    <2>1. Shape' /\ FrameInv' /\ F' = F
      BY <1>1, <1>4, ZenonT(30) DEF Shape, FrameInv, Running, HasQuery, Owned, Local, SearchList, F
    <2>2. AskInv' /\ TcpInv'
      BY <1>1, <1>4, <2>1, Zenon DEF AskInv, TcpInv, Stream, Good, Verify, Running
    <2>3. LateInv'
      BY <1>1, <1>4, Zenon DEF LateInv, NoFault, FailsOnlyLate, Running, OK
    <2>4. QED
      BY <2>1, <2>2, <2>3, Zenon
  <1>5. QED
    BY <1>2, <1>3, <1>4, Zenon DEF ExecResolv1

\* Steps that leave the stack and the socket alone.
LEMMA SameFrames ==
  ASSUME Shape, FrameInv, UNCHANGED <<conf, stack, sp, so, udp, tcp>>, DOMAIN query' = DOMAIN query
  PROVE  Shape' /\ FrameInv' /\ F' = F
  BY Zenon DEF Shape, FrameInv, HasQuery, Owned, Local, SearchList, F

LEMMA ExecQueryAInv == ASSUME ResolverInv, ExecQueryA PROVE ResolverInv'
  <1> USE DEF ResolverInv
  <1>1. pc = "exec" /\ F.state = "QUERY_A" /\ Running /\ err' = err
    BY Zenon DEF ExecQueryA, At
  <1>2. CASE Goto("FOREACH_A") /\ UNCHANGED pc
    <2>1. \E f : Moves(f) /\ Becomes(f)
      BY <1>1, <1>2, GotoMoves, Zenon DEF States, Asking
    <2>2. QED
      BY <1>1, <1>2, <2>1, MovesInv, Zenon
  <1>3. CASE pc' = "check" /\ UNCHANGED <<stack, sp>>
    <2>1. Shape' /\ FrameInv' /\ F' = F
      BY <1>1, <1>3, SameFrames, Zenon DEF Running
    <2>2. AskInv' /\ TcpInv'
      BY <1>1, <1>3, <2>1, Zenon DEF AskInv, TcpInv, Stream, Good, Verify, Running, Matches
    <2>3. LateInv'
      BY <1>1, <1>3, Zenon DEF LateInv, NoFault, FailsOnlyLate, Running
    <2>4. QED
      BY <2>1, <2>2, <2>3
  <1>4. QED
    BY <1>2, <1>3, Zenon DEF ExecQueryA

LEMMA ExecErrorInv == ASSUME ResolverInv, ExecError PROVE ResolverInv'
  <1> USE DEF ResolverInv
  <1>1. Shape' /\ FrameInv' /\ F' = F
    BY SameFrames, Zenon DEF ExecError, Running
  <1>2. AskInv' /\ TcpInv'
    BY <1>1, Zenon DEF AskInv, TcpInv, Stream, Good, Verify, Running, Matches, ExecError
  <1>3. LateInv'
    BY Zenon DEF LateInv, NoFault, FailsOnlyLate, Running, ExecError
  <1>4. QED
    BY <1>1, <1>2, <1>3

LEMMA ExecDoneInv == ASSUME ResolverInv, ExecDone PROVE ResolverInv'
  <1> USE DEF ResolverInv
  <1>1. pc = "exec" /\ F.state = "DONE" /\ Running /\ UNCHANGED stack
    BY Zenon DEF ExecDone, At
  <1>2. CASE sp > 0 /\ sp' = sp - 1 /\ UNCHANGED <<pc, err>>
    <2>1. sp \in 0..(MaxDepth - 1) /\ SearchList' = SearchList
      BY <1>1, Zenon DEF Shape, SearchList, Running
    <2>2. Shape'
      BY <1>1, <1>2, <2>1, ResolverAssumption, SMTT(30) DEF Shape, Running
    <2>3. FrameInv'
      BY <1>1, <1>2, <2>1, ResolverAssumption DEF FrameInv, HasQuery, Owned, Local, Running
    <2>4. F'.state # "QUERY_A"
      <3>1. stack[sp - 1].state \in Calling
        BY <1>2, <2>1, ResolverAssumption DEF FrameInv
      <3>2. QED
        BY <1>1, <1>2, <3>1, Zenon DEF F, Calling
    <2>5. AskInv' /\ TcpInv'
      BY <1>1, <1>2, <2>4, Zenon DEF AskInv, TcpInv, Stream, Good, Verify, Running
    <2>6. LateInv'
      BY <1>1, <1>2, Zenon DEF LateInv, NoFault, FailsOnlyLate, Running
    <2>7. QED
      BY <2>2, <2>3, <2>5, <2>6, Zenon
  <1>3. CASE sp = 0 /\ pc' = "returned" /\ err' = OK /\ UNCHANGED sp
    <2>1. Shape' /\ FrameInv' /\ F' = F
      BY <1>1, <1>3, SameFrames, Zenon DEF Running
    <2>2. AskInv' /\ TcpInv'
      BY <1>1, <1>3, <2>1, Zenon DEF AskInv, TcpInv, Stream, Good, Verify, Running
    <2>3. LateInv'
      BY <1>1, <1>3, Zenon DEF LateInv, NoFault, FailsOnlyLate, Running, F
    <2>4. QED
      BY <2>1, <2>2, <2>3
  <1>4. QED
    BY <1>2, <1>3, ResolverAssumption DEF ExecDone, Shape

LEMMA ExecAnswerInv == ASSUME ResolverInv, ExecAnswer PROVE ResolverInv'
  <1> USE DEF ResolverInv
  <1>1. /\ pc = "checked" /\ err = OK /\ pc' = "exec" /\ so' = [so EXCEPT !.answer = None]
        /\ UNCHANGED <<udp, tcp, faults, now, conf, query, err>> /\ F.state = "QUERY_A"
    BY Zenon DEF ExecAnswer, AskInv
  <1>2. /\ DOMAIN so.answer = PacketFields /\ Fits(F) /\ sp \in Nat
        /\ so.answer.qname = F.query.qname /\ so.answer.qtype = F.query.qtype
    BY <1>1, TopFrame, Zenon DEF AskInv, Matches
  <1>3. PICK f : /\ Becomes(f)
                 /\ \/ \E s \in {"FINISH", "CNAME0_A", "SWITCH", "FOREACH_A"} :
                           f = [[F EXCEPT !.answer = so.answer] EXCEPT !.state = s]
                    \/ f = [[F EXCEPT !.answer = so.answer] EXCEPT !.answer = None, !.hints = so.answer, !.state = "ITERATE"]
    BY DEF ExecAnswer
  <1>4. /\ DOMAIN f = FrameFields /\ f.query = F.query /\ f.answer \in {None, so.answer}
        /\ f.hints \in {F.hints, so.answer} /\ f.state \in States \ {"QUERY_A"}
    BY <1>2, <1>3, Zenon DEF Fits, FrameFields, States
  <1>5. Fits(f)
    BY <1>1, <1>2, <1>4, Zenon DEF Fits, Owned, Local, IsPacket, HasQuery, Asking
  <1>6. DOMAIN so' = SoFields /\ so'.query = so.query /\ so'.state = so.state /\ so'.apos = so.apos /\ so'.qid = so.qid
    BY <1>1, Zenon DEF Shape, SoFields
  <1>7. Shape' /\ FrameInv' /\ F' = f
    BY <1>1, <1>3, <1>5, <1>6, FitsInv, Zenon
  <1>8. AskInv' /\ TcpInv'
    BY <1>1, <1>4, <1>6, <1>7, Zenon DEF AskInv, TcpInv, Stream, Good, Verify
  <1>9. LateInv'
    BY <1>1, Zenon DEF LateInv, NoFault, FailsOnlyLate
  <1>10. QED
    BY <1>7, <1>8, <1>9, Zenon


-----------------------------------------------------------------------------
(***************************************************************************)
(* dns_so_check() leaves the frames alone.                                 *)
(***************************************************************************)
LEMMA SoFrames ==
  ASSUME ResolverInv, UNCHANGED <<conf, stack, sp, query>>, DOMAIN so' = DOMAIN so,
         DOMAIN udp' = DOMAIN udp, DOMAIN tcp' = DOMAIN tcp,
         udp'.queue = udp.queue \/ (udp.queue # <<>> /\ udp'.queue = Tail(udp.queue))
  PROVE  Shape' /\ FrameInv' /\ F' = F
  <1>1. \E S : udp'.queue \in Seq(S) /\ \A p \in S : DOMAIN p = PacketFields
    <2>1. PICK S : udp.queue \in Seq(S) /\ \A p \in S : DOMAIN p = PacketFields
      BY Zenon DEF ResolverInv, Shape
    <2>2. udp'.queue \in Seq(S)
      <3>1. udp.queue # <<>> => Tail(udp.queue) \in Seq(S)
        BY <2>1
      <3>2. QED
        BY <2>1, <3>1, Zenon
    <2>3. QED
      BY <2>1, <2>2, Zenon
  <1>2. Shape'
    BY <1>1, Zenon DEF ResolverInv, Shape
  <1>3. FrameInv' /\ F' = F
    BY Zenon DEF ResolverInv, FrameInv, HasQuery, Owned, Local, SearchList, F
  <1>4. QED
    BY <1>2, <1>3, Zenon

\* A step of dns_so_check(): the question stays, and what is left to show.
LEMMA SoStep ==
  ASSUME ResolverInv, UNCHANGED <<conf, stack, sp, query, faults, now>>, pc = "check",
         Stay \/ \E e : Return(e) /\ (NoFault => e \in {OK, EAGAIN}) /\ (e = OK => Matches'),
         Shape', FrameInv', F' = F, TcpInv', NoFault => ~udp'.icmp /\ ~tcp'.eof /\ tcp'.st # "refused",
         so'.query = so.query, so'.state = "UDP_DONE" => Matches'
  PROVE  ResolverInv'
  <1> USE DEF ResolverInv
  <1>1. F.state = "QUERY_A"
    BY Zenon DEF AskInv
  <1>2. pc' \in {"check", "checked"} /\ (pc' = "checked" /\ err' = OK => Matches')
    BY Zenon DEF Stay, Return, AskInv
  <1>3. AskInv'
    BY <1>1, <1>2, Zenon DEF AskInv
  <1>4. LateInv'
    <2>1. NoFault => query.result = None /\ err' \in {OK, EAGAIN, "ENOBUFS"}
      BY DEF LateInv, Stay, Return
    <2>2. QED
      BY <1>2, <2>1, Zenon DEF LateInv, NoFault, FailsOnlyLate
  <1>5. QED
    BY <1>3, <1>4, Zenon

LEMMA SoUdpConnInv ==
  ASSUME ResolverInv, SoUdpConn, UNCHANGED <<conf, stack, sp, smart, query, log>> PROVE ResolverInv'
  <1>1. /\ DOMAIN so' = DOMAIN so /\ so'.query = so.query /\ so'.qid = so.qid /\ so'.answer = so.answer
        /\ so'.apos = so.apos /\ so'.state = "UDP_SEND" /\ so.state \in {"UDP_INIT", "UDP_CONN"}
    BY Zenon DEF SoUdpConn, Checking, ResolverInv, Shape, SoFields
  <1>2. DOMAIN udp' = DOMAIN udp /\ udp'.queue = udp.queue /\ udp'.icmp = udp.icmp
    BY Zenon DEF SoUdpConn, ResolverInv, Shape
  <1>3. Shape' /\ FrameInv' /\ F' = F
    BY <1>1, <1>2, SoFrames, Zenon DEF SoUdpConn
  <1>4. TcpInv'
    BY <1>1, <1>3, Zenon DEF SoUdpConn, TcpInv, ResolverInv
  <1>5. NoFault => ~udp'.icmp /\ ~tcp'.eof /\ tcp'.st # "refused"
    BY <1>2, Zenon DEF ResolverInv, LateInv, SoUdpConn
  <1>6. QED
    BY <1>1, <1>3, <1>4, <1>5, SoStep, Zenon DEF SoUdpConn, Checking

LEMMA SoUdpSendInv ==
  ASSUME ResolverInv, SoUdpSend, UNCHANGED <<conf, stack, sp, smart, query, log>> PROVE ResolverInv'
  <1>1. /\ DOMAIN so' = DOMAIN so /\ so'.query = so.query /\ so'.qid = so.qid /\ so'.answer = so.answer
        /\ so'.apos = so.apos /\ so'.state \in {"UDP_SEND", "UDP_RECV"} /\ so.state = "UDP_SEND"
    BY Zenon DEF SoUdpSend, Checking, ResolverInv, Shape, SoFields
  <1>2. DOMAIN udp' = DOMAIN udp /\ udp'.queue = udp.queue /\ (udp'.icmp => udp.icmp)
    BY Zenon DEF SoUdpSend, ResolverInv, Shape
  <1>3. Shape' /\ FrameInv' /\ F' = F
    BY <1>1, <1>2, SoFrames, Zenon DEF SoUdpSend
  <1>4. TcpInv'
    BY <1>1, <1>3, Zenon DEF SoUdpSend, TcpInv, ResolverInv
  <1>5. NoFault => ~udp'.icmp /\ ~tcp'.eof /\ tcp'.st # "refused"
    BY <1>2, Zenon DEF ResolverInv, LateInv, SoUdpSend
  <1>6. Stay \/ \E e : Return(e) /\ (NoFault => e \in {OK, EAGAIN}) /\ (e = OK => Matches')
    BY DEF SoUdpSend, ResolverInv, LateInv, OK
  <1>7. QED
    BY <1>1, <1>3, <1>4, <1>5, <1>6, SoStep, Zenon DEF SoUdpSend, Checking

LEMMA SoUdpRecvInv ==
  ASSUME ResolverInv, SoUdpRecv, UNCHANGED <<conf, stack, sp, smart, query, log>> PROVE ResolverInv'
  <1>1. /\ DOMAIN so' = DOMAIN so /\ so'.query = so.query /\ so'.qid = so.qid
        /\ so'.apos = so.apos /\ so'.state \in {"UDP_RECV", "UDP_DONE"} /\ so.state = "UDP_RECV"
    BY Zenon DEF SoUdpRecv, Checking, ResolverInv, Shape, SoFields
  <1>2. /\ DOMAIN udp' = DOMAIN udp /\ (udp'.icmp => udp.icmp)
        /\ udp'.queue = udp.queue \/ (udp.queue # <<>> /\ udp'.queue = Tail(udp.queue))
    BY DEF SoUdpRecv, ResolverInv, Shape
  <1>3. Shape' /\ FrameInv' /\ F' = F
    BY <1>1, <1>2, SoFrames DEF SoUdpRecv
  <1>4. TcpInv'
    BY <1>1, <1>3, Zenon DEF SoUdpRecv, TcpInv, ResolverInv
  <1>5. NoFault => ~udp'.icmp /\ ~tcp'.eof /\ tcp'.st # "refused"
    BY <1>2, Zenon DEF ResolverInv, LateInv, SoUdpRecv
  <1>6. Stay \/ \E e : Return(e) /\ (NoFault => e \in {OK, EAGAIN}) /\ (e = OK => Matches')
    BY DEF SoUdpRecv, ResolverInv, LateInv, OK, EAGAIN
  <1>7. so'.state = "UDP_DONE" => Matches'
    <2> SUFFICES ASSUME so'.state = "UDP_DONE" PROVE Matches'
      BY Zenon
    <2>1. udp.queue # <<>> /\ Verify(Head(udp.queue)) /\ so' = [so EXCEPT !.answer = Head(udp.queue), !.state = "UDP_DONE"]
      BY <1>1, Zenon DEF SoUdpRecv
    <2>2. DOMAIN Head(udp.queue) = PacketFields
      BY <2>1 DEF ResolverInv, Shape
    <2>3. so'.answer = Head(udp.queue)
      BY <2>1, Zenon DEF ResolverInv, Shape, SoFields
    <2>4. QED
      BY <1>1, <2>1, <2>2, <2>3, Zenon DEF Matches, Verify
  <1>8. QED
    BY <1>1, <1>3, <1>4, <1>5, <1>6, <1>7, SoStep, Zenon DEF SoUdpRecv, Checking

LEMMA SoUdpDoneInv ==
  ASSUME ResolverInv, SoUdpDone, UNCHANGED <<conf, stack, sp, smart, query, log>> PROVE ResolverInv'
  <1>1. /\ DOMAIN so' = DOMAIN so /\ so'.query = so.query /\ so'.qid = so.qid /\ so'.answer = so.answer
        /\ so'.apos = so.apos /\ so'.state \in {"UDP_DONE", "TCP_INIT"} /\ so.state = "UDP_DONE"
    BY Zenon DEF SoUdpDone, Checking, ResolverInv, Shape, SoFields
  <1>2. Matches /\ Matches'
    BY <1>1, Zenon DEF SoUdpDone, Checking, ResolverInv, AskInv, Matches
  <1>3. Shape' /\ FrameInv' /\ F' = F
    BY <1>1, SoFrames, Zenon DEF SoUdpDone
  <1>4. TcpInv'
    BY <1>1, <1>3, Zenon DEF SoUdpDone, TcpInv, ResolverInv
  <1>5. NoFault => ~udp'.icmp /\ ~tcp'.eof /\ tcp'.st # "refused"
    BY DEF ResolverInv, LateInv, SoUdpDone
  <1>6. Stay \/ \E e : Return(e) /\ (NoFault => e \in {OK, EAGAIN}) /\ (e = OK => Matches')
    BY <1>2, Zenon DEF SoUdpDone
  <1>7. QED
    BY <1>1, <1>2, <1>3, <1>4, <1>5, <1>6, SoStep, Zenon DEF SoUdpDone, Checking


LEMMA SoTcpInitInv ==
  ASSUME ResolverInv, SoTcpInit, UNCHANGED <<conf, stack, sp, smart, query, log>> PROVE ResolverInv'
  <1>1. /\ DOMAIN so' = DOMAIN so /\ so'.query = so.query /\ so'.qid = so.qid
        /\ so'.apos = so.apos /\ so'.state = "TCP_CONN" /\ so.state = "TCP_INIT"
    BY Zenon DEF SoTcpInit, Checking, ResolverInv, Shape, SoFields, CloseFd
  <1>2. /\ DOMAIN tcp' = DOMAIN tcp /\ tcp'.in = <<>> /\ tcp'.replied = 0 /\ ~tcp'.eof /\ tcp'.st = "new"
    BY DEF SoTcpInit, Closed, ResolverInv, Shape
  <1>3. Shape' /\ FrameInv' /\ F' = F
    BY <1>1, <1>2, SoFrames, Zenon DEF SoTcpInit
  <1>4. TcpInv'
    BY <1>1, <1>2, <1>3, Zenon DEF TcpInv, ResolverInv
  <1>5. NoFault => ~udp'.icmp /\ ~tcp'.eof /\ tcp'.st # "refused"
    BY <1>2, Zenon DEF ResolverInv, LateInv, SoTcpInit
  <1>6. QED
    BY <1>1, <1>3, <1>4, <1>5, SoStep, Zenon DEF SoTcpInit, Checking

LEMMA SoTcpConnInv ==
  ASSUME ResolverInv, SoTcpConn, UNCHANGED <<conf, stack, sp, smart, query, log>> PROVE ResolverInv'
  <1>1. /\ DOMAIN so' = DOMAIN so /\ so'.query = so.query /\ so'.qid = so.qid
        /\ so'.apos = so.apos /\ so'.state \in {"TCP_CONN", "TCP_SEND"} /\ so.state = "TCP_CONN"
    BY Zenon DEF SoTcpConn, Checking, ResolverInv, Shape, SoFields
  <1>2. /\ DOMAIN tcp' = DOMAIN tcp /\ tcp'.in = tcp.in /\ tcp'.replied = tcp.replied
        /\ tcp'.eof = tcp.eof /\ (tcp'.st = "refused" => tcp.st = "refused")
    BY DEF SoTcpConn, ResolverInv, Shape
  <1>3. Shape' /\ FrameInv' /\ F' = F
    BY <1>1, <1>2, SoFrames, Zenon DEF SoTcpConn
  <1>4. TcpInv'
    BY <1>1, <1>2, <1>3, Zenon DEF TcpInv, ResolverInv
  <1>5. NoFault => ~udp'.icmp /\ ~tcp'.eof /\ tcp'.st # "refused"
    BY <1>2, Zenon DEF ResolverInv, LateInv, SoTcpConn
  <1>6. Stay \/ \E e : Return(e) /\ (NoFault => e \in {OK, EAGAIN}) /\ (e = OK => Matches')
    BY DEF SoTcpConn, ResolverInv, LateInv, OK, EAGAIN
  <1>7. QED
    BY <1>1, <1>3, <1>4, <1>5, <1>6, SoStep, Zenon DEF SoTcpConn, Checking

LEMMA SoTcpSendInv ==
  ASSUME ResolverInv, SoTcpSend, UNCHANGED <<conf, stack, sp, smart, query, log>> PROVE ResolverInv'
  <1>1. PICK n \in 1..(QLen - so.qout), again \in BOOLEAN :
          /\ tcp' = [tcp EXCEPT !.sent = @ \o [i \in 1..n |-> 2 * so.qout + i]]
          /\ so' = [so EXCEPT !.qout = @ + n, !.state = IF again THEN @ ELSE "TCP_RECV"]
          /\ IF again THEN Return(EAGAIN) ELSE Stay
    BY Zenon DEF SoTcpSend
  <1>2. /\ DOMAIN so' = DOMAIN so /\ so'.query = so.query /\ so'.qid = so.qid
        /\ so'.apos = so.apos /\ so'.state \in {"TCP_SEND", "TCP_RECV"} /\ so.state = "TCP_SEND"
    BY <1>1, Zenon DEF SoTcpSend, Checking, ResolverInv, Shape, SoFields
  <1>3. /\ DOMAIN tcp' = DOMAIN tcp /\ tcp'.in = tcp.in /\ tcp'.replied = tcp.replied
        /\ tcp'.eof = tcp.eof /\ tcp'.st = tcp.st
    BY <1>1, Zenon DEF ResolverInv, Shape
  <1>4. Shape' /\ FrameInv' /\ F' = F
    BY <1>2, <1>3, SoFrames, Zenon DEF SoTcpSend
  <1>5. TcpInv'
    BY <1>2, <1>3, <1>4, Zenon DEF TcpInv, Stream, ResolverInv
  <1>6. NoFault => ~udp'.icmp /\ ~tcp'.eof /\ tcp'.st # "refused"
    BY <1>3, Zenon DEF ResolverInv, LateInv, SoTcpSend
  <1>7. Stay \/ \E e : Return(e) /\ (NoFault => e \in {OK, EAGAIN}) /\ (e = OK => Matches')
    BY <1>1 DEF OK, EAGAIN
  <1>8. QED
    BY <1>2, <1>4, <1>5, <1>6, <1>7, SoStep, Zenon DEF SoTcpSend, Checking

LEMMA TailOfPair == ASSUME NEW a, NEW b PROVE Tail(<<a, b>>) = <<b>>
  OBVIOUS

LEMMA SoTcpRecvInv ==
  ASSUME ResolverInv, SoTcpRecv, UNCHANGED <<conf, stack, sp, smart, query, log>> PROVE ResolverInv'
  <1>1. /\ DOMAIN so' = DOMAIN so /\ so'.query = so.query /\ so'.qid = so.qid
        /\ so'.state \in {"TCP_RECV", "TCP_DONE"} /\ so.state = "TCP_RECV"
    BY ZenonT(30) DEF SoTcpRecv, Checking, ResolverInv, Shape, SoFields
  <1>2. /\ DOMAIN tcp' = DOMAIN tcp /\ tcp'.replied = tcp.replied
        /\ tcp'.eof = tcp.eof /\ tcp'.st = tcp.st
    BY DEF SoTcpRecv, ResolverInv, Shape
  <1>3. Shape' /\ FrameInv' /\ F' = F
    BY <1>1, <1>2, SoFrames DEF SoTcpRecv
  <1>4. Stream
    BY <1>1, Zenon DEF ResolverInv, TcpInv
  <1>5. TcpInv'
    <2>1. CASE tcp.in = <<>>
      BY <1>1, <1>3, <1>4, <2>1, Zenon DEF SoTcpRecv, TcpInv, Stream, Good, Verify
    <2>2. CASE tcp.in # <<>> /\ so.apos = 0
      <3>1. /\ so'.apos = 1 /\ so'.state = "TCP_RECV" /\ tcp'.in = Tail(tcp.in)
        BY <1>1, <2>2, Zenon DEF SoTcpRecv, ResolverInv, Shape, SoFields
      <3>2. CASE tcp.in = <<"length">> /\ tcp.replied = 1
        BY <1>1, <1>2, <3>1, <3>2 DEF TcpInv, Stream
      <3>3. CASE tcp.in = <<"length", tcp.in[2]>> /\ Good(tcp.in[2]) /\ tcp.replied = 2
        <4>1. PICK p : tcp.in = <<"length", p>> /\ Good(p)
          BY <3>3, Zenon
        <4>2. tcp'.in = <<p>> /\ tcp'.in[1] = p
          BY <3>1, <4>1, TailOfPair
        <4>3. QED
          BY <1>1, <1>2, <3>1, <3>3, <4>1, <4>2, Zenon DEF TcpInv, Stream, Good, Verify
      <3>4. QED
        BY <1>4, <2>2, <3>2, <3>3 DEF Stream
    <2>3. CASE tcp.in # <<>> /\ so.apos # 0
      <3>1. tcp.in = <<tcp.in[1]>> /\ Good(tcp.in[1])
        BY <1>4, <2>3, Zenon DEF Stream
      <3>2. so'.answer = Head(tcp.in) /\ so'.state = "TCP_DONE"
        BY <2>3, Zenon DEF SoTcpRecv, ResolverInv, Shape, SoFields
      <3>3. Head(tcp.in) = tcp.in[1]
        BY <3>1
      <3>4. Good(so'.answer)
        BY <3>1, <3>2, <3>3, Zenon
      <3>5. QED
        BY <1>1, <3>2, <3>4, Zenon DEF TcpInv, Good, Verify
    <2>4. QED
      BY <2>1, <2>2, <2>3, Zenon
  <1>6. NoFault => ~udp'.icmp /\ ~tcp'.eof /\ tcp'.st # "refused"
    BY <1>2, Zenon DEF ResolverInv, LateInv, SoTcpRecv
  <1>7. Stay \/ \E e : Return(e) /\ (NoFault => e \in {OK, EAGAIN}) /\ (e = OK => Matches')
    BY DEF SoTcpRecv, ResolverInv, LateInv, OK, EAGAIN
  <1>8. QED
    BY <1>1, <1>3, <1>5, <1>6, <1>7, SoStep, Zenon DEF SoTcpRecv, Checking

LEMMA SoTcpDoneInv ==
  ASSUME ResolverInv, SoTcpDone, UNCHANGED <<conf, stack, sp, smart, query, log>> PROVE ResolverInv'
  <1>1. /\ DOMAIN so' = DOMAIN so /\ so'.query = so.query /\ so'.qid = so.qid /\ so'.answer = so.answer
        /\ so'.apos = so.apos /\ so'.state = "TCP_DONE" /\ so.state = "TCP_DONE"
    BY Zenon DEF SoTcpDone, Checking, ResolverInv, Shape, SoFields, CloseFd
  <1>2. Good(so.answer)
    BY <1>1, Zenon DEF SoTcpDone, Checking, ResolverInv, TcpInv, AskInv
  <1>3. Matches'
    BY <1>1, <1>2, Zenon DEF Matches, Good, Verify
  <1>4. Return(OK)
    BY <1>2, Zenon DEF SoTcpDone, Good
  <1>5. DOMAIN tcp' = DOMAIN tcp /\ ~tcp'.eof /\ tcp'.st = "closed"
    BY Zenon DEF SoTcpDone, Closed, ResolverInv, Shape
  <1>6. Shape' /\ FrameInv' /\ F' = F
    BY <1>1, <1>5, SoFrames, Zenon DEF SoTcpDone
  <1>7. TcpInv'
    BY <1>1, <1>2, Zenon DEF TcpInv, Good, Verify
  <1>8. NoFault => ~udp'.icmp /\ ~tcp'.eof /\ tcp'.st # "refused"
    BY <1>5, Zenon DEF ResolverInv, LateInv, SoTcpDone
  <1>9. QED
    BY <1>1, <1>3, <1>4, <1>6, <1>7, <1>8, SoStep, Zenon DEF SoTcpDone, Checking


-----------------------------------------------------------------------------
(***************************************************************************)
(* The network.                                                            *)
(***************************************************************************)
LEMMA PacketShape ==
  ASSUME NEW d, NEW a
  PROVE  /\ DOMAIN Packet(d, a) = PacketFields /\ ~Packet(d, a).runt
         /\ Packet(d, a).qid = d.qid /\ Packet(d, a).qname = d.qname /\ Packet(d, a).qtype = d.qtype
         /\ \A x : DOMAIN [Packet(d, a) EXCEPT !.tc = x] = PacketFields
         /\ \A x : DOMAIN [Packet(d, a) EXCEPT !.runt = x] = PacketFields
  BY Zenon DEF Packet, PacketFields

\* A step of the network: the thread stays where it is.
LEMMA NetStep ==
  ASSUME ResolverInv, UNCHANGED <<so, faults, now, pc, err, conf, stack, sp, query>>,
         DOMAIN udp' = DOMAIN udp, DOMAIN tcp' = DOMAIN tcp,
         \E S : udp'.queue \in Seq(S) /\ \A p \in S : DOMAIN p = PacketFields,
         NoFault => ~udp'.icmp /\ ~tcp'.eof /\ tcp'.st # "refused",
         so.state \in {"TCP_CONN", "TCP_SEND"} => tcp'.in = tcp.in /\ tcp'.replied = tcp.replied,
         so.state = "TCP_RECV" => Stream'
  PROVE  ResolverInv'
  <1> USE DEF ResolverInv
  <1>1. Shape'
    BY Zenon DEF Shape
  <1>2. FrameInv' /\ AskInv'
    BY ZenonT(30) DEF FrameInv, HasQuery, Owned, Local, SearchList, F, AskInv, Matches
  <1>3. TcpInv'
    BY Zenon DEF TcpInv, Good, Verify, F
  <1>4. LateInv'
    BY Zenon DEF LateInv, NoFault, FailsOnlyLate, Elapsed
  <1>5. QED
    BY <1>1, <1>2, <1>3, <1>4, Zenon

LEMMA NetUdpInv ==
  ASSUME ResolverInv, NetReply \/ NetRefuse, UNCHANGED <<conf, stack, sp, smart, query, log>>
  PROVE  ResolverInv'
  <1>1. PICK S : udp.queue \in Seq(S) /\ \A p \in S : DOMAIN p = PacketFields
    BY Zenon DEF ResolverInv, Shape
  <1>2. UNCHANGED <<so, tcp, faults, now, pc, err>>
    BY Zenon DEF NetReply, NetRefuse
  <1>3. so.state = "TCP_RECV" => Stream'
    BY <1>2, Zenon DEF ResolverInv, TcpInv, Stream, Good, Verify
  <1>4. CASE NetReply
    <2>1. PICK d, p : p \in UdpReplies(d) /\ udp' = [udp EXCEPT !.queue = Append(@, p)]
      BY <1>4, ZenonT(30) DEF NetReply
    <2>2. DOMAIN p = PacketFields
      <3>1. \/ \E a : p = Packet(d, a)
            \/ p = [Packet(d, EmptyAnswer) EXCEPT !.tc = TRUE]
            \/ p = [Packet(d, EmptyAnswer) EXCEPT !.runt = TRUE]
        BY <2>1, Zenon DEF UdpReplies
      <3>2. QED
        BY <3>1, PacketShape, Zenon
    <2>3. /\ DOMAIN udp' = DOMAIN udp /\ udp'.queue = Append(udp.queue, p) /\ udp'.icmp = udp.icmp
      BY <2>1, Zenon DEF ResolverInv, Shape
    <2>4. udp'.queue \in Seq(S \cup {p})
      BY <1>1, <2>3
    <2>5. NoFault => ~udp'.icmp /\ ~tcp'.eof /\ tcp'.st # "refused"
      BY <1>2, <2>3, Zenon DEF ResolverInv, LateInv
    <2>6. \E T : udp'.queue \in Seq(T) /\ \A r \in T : DOMAIN r = PacketFields
      BY <1>1, <2>2, <2>4, Zenon
    <2>7. QED
      BY <1>2, <1>3, <2>3, <2>5, <2>6, NetStep, Zenon
  <1>5. CASE NetRefuse
    <2>1. DOMAIN udp' = DOMAIN udp /\ udp'.queue = udp.queue /\ ~NoFault
      BY <1>5, Zenon DEF NetRefuse, ResolverInv, Shape, NoFault
    <2>2. QED
      BY <1>1, <1>2, <1>3, <2>1, NetStep, Zenon
  <1>6. QED
    BY <1>4, <1>5, Zenon

LEMMA AppendToOne ==
  ASSUME NEW a, NEW b
  PROVE  Append(<<a>>, b) = <<a, b>>
  <1>1. <<a>> \in Seq({a, b}) /\ Len(<<a>>) = 1 /\ <<a>>[1] = a
    OBVIOUS
  <1>2. PICK s \in Seq({a, b}) : s = <<a>>
    BY <1>1, Zenon
  <1>3. /\ Append(s, b) \in Seq({a, b}) /\ Len(Append(s, b)) = 2
        /\ Append(s, b)[1] = a /\ Append(s, b)[2] = b
    BY <1>1, <1>2
  <1>4. PICK t \in Seq({a, b}) : t = Append(s, b)
    BY <1>3, Zenon
  <1>5. PICK u \in Seq({a, b}) : u = <<a, b>> /\ Len(u) = 2 /\ u[1] = a /\ u[2] = b
    <2>1. <<a, b>> \in Seq({a, b}) /\ Len(<<a, b>>) = 2
      OBVIOUS
    <2>2. QED
      BY <2>1, Zenon
  <1>6. t \in [1..2 -> {a, b}] /\ u \in [1..2 -> {a, b}] /\ \A k \in 1..2 : t[k] = u[k]
    <2>1. \A x \in Seq({a, b}) : Len(x) = 2 => x \in [1..2 -> {a, b}]
      <3>1. \A x \in Seq({a, b}) : x \in [1..Len(x) -> {a, b}]
        OBVIOUS
      <3>2. QED
        BY <3>1, Zenon
    <2>2. Len(t) = 2 /\ t[1] = a /\ t[2] = b
      BY <1>3, <1>4, Zenon
    <2>3. t \in [1..2 -> {a, b}] /\ u \in [1..2 -> {a, b}]
      BY <1>5, <2>1, <2>2, Zenon
    <2>4. \A k \in 1..2 : t[k] = u[k]
      <3>1. \A k \in 1..2 : k = 1 \/ k = 2
        OBVIOUS
      <3>2. QED
        BY <1>5, <2>2, <3>1, Zenon
    <2>5. QED
      BY <2>3, <2>4, Zenon
  <1>7. t = u
    BY <1>6
  <1>8. QED
    BY <1>2, <1>4, <1>5, <1>7, Zenon

LEMMA NetTcpReplyStream ==
  ASSUME ResolverInv, NetTcpReply
  PROVE  Stream'
  <1>1. so.state = "TCP_RECV" /\ so' = so /\ Stream
    BY DEF NetTcpReply, ResolverInv, TcpInv
  <1>2. PICK p : /\ Good(p)
                 /\ tcp' = [tcp EXCEPT !.replied = @ + 1,
                                       !.in = Append(@, IF tcp.replied = 0 THEN "length" ELSE p)]
    <2>1. PICK a : tcp' = [tcp EXCEPT !.replied = @ + 1,
                                      !.in = Append(@, IF tcp.replied = 0 THEN "length"
                                                       ELSE Packet(Datagram, a))]
      BY Zenon DEF NetTcpReply
    <2>2. Good(Packet(Datagram, a))
      BY PacketShape DEF Good, Verify, Datagram
    <2>3. QED
      BY <2>1, <2>2, ZenonT(30)
  <1>3. /\ tcp'.replied = tcp.replied + 1
        /\ tcp'.in = Append(tcp.in, IF tcp.replied = 0 THEN "length" ELSE p)
    BY <1>2, Zenon DEF ResolverInv, Shape
  <1>4. Good(p)'
    BY <1>1, <1>2, Zenon DEF Good, Verify
  <1>5. CASE so.apos = 0 /\ tcp.in = <<>> /\ tcp.replied = 0
    BY <1>1, <1>3, <1>5 DEF Stream
  <1>6. CASE so.apos = 0 /\ tcp.in = <<"length">> /\ tcp.replied = 1
    <2>1. tcp'.in = <<"length", p>> /\ tcp'.in[2] = p /\ tcp'.replied = 2
      <3>1. tcp'.in = Append(<<"length">>, p) /\ tcp'.replied = 2
        BY <1>3, <1>6
      <3>2. Append(<<"length">>, p) = <<"length", p>>
        BY AppendToOne, Zenon
      <3>3. QED
        BY <3>1, <3>2
    <2>2. QED
      BY <1>1, <1>4, <1>6, <2>1, Zenon DEF Stream
  <1>7. CASE so.apos = 1 /\ tcp.in = <<>> /\ tcp.replied = 1
    <2>1. tcp'.in = <<p>> /\ tcp'.in[1] = p /\ tcp'.replied = 2
      BY <1>3, <1>7
    <2>2. QED
      BY <1>1, <1>4, <1>7, <2>1, Zenon DEF Stream
  <1>8. tcp.replied # 2
    BY DEF NetTcpReply
  <1>9. QED
    BY <1>1, <1>5, <1>6, <1>7, <1>8, Zenon DEF Stream

LEMMA NetTcpInv ==
  ASSUME ResolverInv, NetTcpConnect \/ NetTcpReply \/ NetTcpEof, UNCHANGED <<conf, stack, sp, smart, query, log>>
  PROVE  ResolverInv'
  <1>1. /\ UNCHANGED <<so, udp, faults, now, pc, err>>
        /\ \E S : udp.queue \in Seq(S) /\ \A p \in S : DOMAIN p = PacketFields
    BY Zenon DEF NetTcpConnect, NetTcpReply, NetTcpEof, ResolverInv, Shape
  <1>2. CASE NetTcpConnect
    <2>1. PICK st : tcp' = [tcp EXCEPT !.st = st] /\ (NoFault => st = "open")
      BY <1>2, Zenon DEF NetTcpConnect, NoFault
    <2>2. /\ DOMAIN tcp' = DOMAIN tcp /\ tcp'.in = tcp.in /\ tcp'.replied = tcp.replied /\ tcp'.eof = tcp.eof
          /\ tcp'.st = st
      BY <2>1, Zenon DEF ResolverInv, Shape
    <2>3. so.state = "TCP_RECV" => Stream'
      BY <1>1, <2>2, Zenon DEF ResolverInv, TcpInv, Stream, Good, Verify
    <2>4. NoFault => ~udp'.icmp /\ ~tcp'.eof /\ tcp'.st # "refused"
      BY <1>1, <2>1, <2>2, Zenon DEF ResolverInv, LateInv
    <2>5. QED
      BY <1>1, <2>2, <2>3, <2>4, NetStep, Zenon
  <1>3. CASE NetTcpReply
    <2>1. Stream' /\ so.state = "TCP_RECV"
      BY <1>3, NetTcpReplyStream, ZenonT(30) DEF NetTcpReply
    <2>2. DOMAIN tcp' = DOMAIN tcp /\ tcp'.eof = tcp.eof /\ tcp'.st = tcp.st
      BY <1>3, ZenonT(30) DEF NetTcpReply, ResolverInv, Shape
    <2>3. NoFault => ~udp'.icmp /\ ~tcp'.eof /\ tcp'.st # "refused"
      BY <1>1, <2>2 DEF ResolverInv, LateInv
    <2>4. QED
      BY <1>1, <2>1, <2>2, <2>3, NetStep, ZenonT(30)
  <1>4. CASE NetTcpEof
    <2>1. DOMAIN tcp' = DOMAIN tcp /\ tcp'.in = tcp.in /\ tcp'.replied = tcp.replied /\ ~NoFault
      BY <1>4, Zenon DEF NetTcpEof, ResolverInv, Shape, NoFault
    <2>2. so.state = "TCP_RECV" => Stream'
      BY <1>1, <2>1, ZenonT(30) DEF ResolverInv, TcpInv, Stream, Good, Verify
    <2>3. QED
      BY <1>1, <2>1, <2>2, NetStep, Zenon
  <1>5. QED
    BY <1>2, <1>3, <1>4, Zenon


-----------------------------------------------------------------------------
(***************************************************************************)
(* The driver.                                                             *)
(***************************************************************************)
LEMMA FreshParts ==
  ASSUME NEW type
  PROVE  /\ DOMAIN SoInit(type) = SoFields /\ SoInit(type).state = "IDLE" /\ SoInit(type).apos = 0
         /\ DOMAIN UdpInit = {"open", "peer", "queue", "icmp"} /\ UdpInit.queue = <<>> /\ ~UdpInit.icmp
         /\ DOMAIN Closed = {"st", "sent", "in", "replied", "eof"} /\ ~Closed.eof /\ Closed.st = "closed"
         /\ DOMAIN NewFrame = FrameFields /\ NewFrame.state = "INIT"
         /\ NewFrame.state \in States /\ NewFrame.answer = None /\ NewFrame.hints = None
  BY Zenon DEF SoInit, SoReset, UdpInit, Closed, NewFrame, SoFields, FrameFields, States

\* New frames and a new socket hold nothing of anybody's: what Init sets up and
\* what mydns_close() leaves.
LEMMA FreshInv ==
  ASSUME conf \in Confs, stack = [k \in 0..(MaxDepth - 1) |-> NewFrame], sp = 0,
         NEW type, so = SoInit(type), tcp = Closed, udp = UdpInit \/ udp = [UdpInit EXCEPT !.open = FALSE],
         DOMAIN query = {"began", "tries", "deadline", "result"}, pc \in {"exec", "closed"}
  PROVE  Shape /\ FrameInv /\ AskInv /\ TcpInv /\ ~udp.icmp /\ ~tcp.eof /\ tcp.st # "refused"
  <1>1. /\ 0 \in 0..(MaxDepth - 1) /\ DOMAIN stack = 0..(MaxDepth - 1)
        /\ \A k \in 0..(MaxDepth - 1) : stack[k] = NewFrame
    BY ResolverAssumption
  <1>2. DOMAIN udp = {"open", "peer", "queue", "icmp"} /\ udp.queue = <<>> /\ ~udp.icmp
    BY FreshParts, Zenon
  <1>3. \E S : udp.queue \in Seq(S) /\ \A p \in S : DOMAIN p = PacketFields
    <2>1. <<>> \in Seq({}) /\ \A p \in {} : DOMAIN p = PacketFields
      OBVIOUS
    <2>2. QED
      BY <1>2, <2>1
  <1>4. Shape
    BY <1>1, <1>2, <1>3, FreshParts, Zenon DEF Shape, IsPacket
  <1>5. FrameInv
    BY <1>1, FreshParts DEF FrameInv, Owned, Local, Asking
  <1>6. AskInv /\ TcpInv
    BY <1>1, FreshParts, Zenon DEF AskInv, TcpInv, F
  <1>7. QED
    BY <1>2, <1>4, <1>5, <1>6, FreshParts, Zenon

LEMMA CloseInv ==
  ASSUME ResolverInv, CloseResolver, UNCHANGED conf, DOMAIN query' = DOMAIN query
  PROVE  /\ (Shape /\ FrameInv /\ AskInv /\ TcpInv)' /\ pc' = "closed"
         /\ ~udp'.icmp /\ ~tcp'.eof /\ tcp'.st # "refused"
  <1>1. /\ conf' \in Confs /\ DOMAIN query' = {"began", "tries", "deadline", "result"}
    BY DEF ResolverInv, Shape
  <1>2. PICK type : so' = SoInit(type)
    BY DEF CloseResolver
  <1>3. /\ stack' = [k \in 0..(MaxDepth - 1) |-> NewFrame] /\ sp' = 0 /\ tcp' = Closed
        /\ udp' = [UdpInit EXCEPT !.open = FALSE] /\ pc' = "closed"
    BY DEF CloseResolver
  <1>4. /\ 0 \in 0..(MaxDepth - 1) /\ DOMAIN stack' = 0..(MaxDepth - 1)
        /\ \A k \in 0..(MaxDepth - 1) : stack'[k] = NewFrame
    BY <1>3, ResolverAssumption
  <1>5. DOMAIN udp' = {"open", "peer", "queue", "icmp"} /\ udp'.queue = <<>> /\ ~udp'.icmp
    BY <1>3, FreshParts, Zenon
  <1>6. \E S : udp'.queue \in Seq(S) /\ \A p \in S : DOMAIN p = PacketFields
    <2>1. <<>> \in Seq({}) /\ \A p \in {} : DOMAIN p = PacketFields
      OBVIOUS
    <2>2. QED
      BY <1>5, <2>1
  <1>7. Shape'
    BY <1>1, <1>2, <1>3, <1>4, <1>5, <1>6, FreshParts, Zenon DEF Shape, IsPacket
  <1>8. FrameInv'
    BY <1>3, <1>4, FreshParts DEF FrameInv, Owned, Local, Asking
  <1>9. AskInv' /\ TcpInv'
    BY <1>2, <1>3, <1>4, FreshParts, Zenon DEF AskInv, TcpInv, F
  <1>10. QED
    BY <1>3, <1>5, <1>7, <1>8, <1>9, FreshParts, Zenon


\* A result that is a failure comes from a check that had run out of time.
LEMMA AnsweredLate ==
  ASSUME ResolverInv, pc = "returned", NEW timedOut, timedOut => err = EAGAIN, IsQueryDone,
         Answered(timedOut), UNCHANGED <<faults, now, err, conf>>
  PROVE  ResolverInv'
  <1> DEFINE r == ParseAnswer(timedOut)
  <1>1. /\ DOMAIN query' = DOMAIN query /\ query'.result = r /\ query'.began = query.began
    BY Zenon DEF Answered, ResolverInv, Shape
  <1>2. /\ (Shape /\ FrameInv /\ AskInv /\ TcpInv)' /\ pc' = "closed"
        /\ ~udp'.icmp /\ ~tcp'.eof /\ tcp'.st # "refused"
    BY <1>1, CloseInv, Zenon DEF Answered
  <1>3. SUFFICES ASSUME NoFault PROVE FailsOnlyLate' /\ err \in {OK, EAGAIN, "ENOBUFS"}
    BY <1>2, Zenon DEF ResolverInv, LateInv, NoFault
  <1>4. err \in {OK, EAGAIN, "ENOBUFS"} /\ (err = OK => stack[0].state = "DONE")
    BY <1>3, Zenon DEF ResolverInv, LateInv
  <1>5. SUFFICES ASSUME r.kind \in {"error", "timeout"}, err # "ENOBUFS" PROVE Elapsed' >= conf'.expire
    BY <1>1, <1>4, Zenon DEF FailsOnlyLate
  <1>6. err = EAGAIN
    <2>1. CASE timedOut
      BY <2>1, Zenon
    <2>2. CASE ~timedOut
      <3>1. stack[0].state # "DONE"
        BY <1>5, <2>2, Zenon DEF ParseAnswer
      <3>2. QED
        BY <1>4, <1>5, <3>1, Zenon
    <2>3. QED
      BY <2>1, <2>2, Zenon
  <1>7. Elapsed >= conf.expire
    BY <1>6, Zenon DEF IsQueryDone
  <1>8. QED
    BY <1>1, <1>7, Zenon DEF Elapsed

LEMMA YieldsInv ==
  ASSUME ResolverInv, pc = "returned", Yields, UNCHANGED <<faults, now, err, conf>>
  PROVE  ResolverInv'
  <1>1. /\ DOMAIN query' = DOMAIN query /\ query'.result = query.result /\ pc' = "wait"
        /\ UNCHANGED <<so, udp, tcp, stack, sp>>
    BY Zenon DEF Yields, ResolverInv, Shape
  <1>2. Shape' /\ FrameInv' /\ F' = F
    BY <1>1, SameFrames, Zenon DEF ResolverInv
  <1>3. AskInv'
    BY <1>1, <1>2, Zenon DEF ResolverInv, AskInv, Matches
  <1>4. TcpInv'
    BY <1>1, <1>2, ZenonT(30) DEF ResolverInv, TcpInv, Stream, Good, Verify
  <1>5. LateInv'
    BY <1>1, Zenon DEF ResolverInv, LateInv, NoFault, FailsOnlyLate
  <1>6. QED
    BY <1>2, <1>3, <1>4, <1>5, Zenon DEF ResolverInv

LEMMA CollectInv == ASSUME ResolverInv, Collect \/ CollectAll PROVE ResolverInv'
  <1>1. CASE Collect
    BY <1>1, AnsweredLate, YieldsInv, Zenon DEF Collect
  <1>2. CASE CollectAll
    BY <1>2, AnsweredLate, YieldsInv, Zenon DEF CollectAll
  <1>3. QED
    BY <1>1, <1>2, Zenon

LEMMA WaitInv == ASSUME ResolverInv, Wake \/ Tick PROVE ResolverInv'
  <1>1. /\ pc = "wait" /\ pc' \in {"wait", "exec"}
        /\ UNCHANGED <<so, udp, tcp, faults, err, conf, stack, sp, query>>
    BY Zenon DEF Wake, Tick
  <1>2. Shape' /\ FrameInv' /\ F' = F
    BY <1>1, SameFrames, Zenon DEF ResolverInv
  <1>3. AskInv'
    BY <1>1, <1>2, Zenon DEF ResolverInv, AskInv, Matches
  <1>4. TcpInv'
    BY <1>1, <1>2, ZenonT(30) DEF ResolverInv, TcpInv, Stream, Good, Verify
  <1>5. LateInv'
    BY <1>1, Zenon DEF ResolverInv, LateInv, NoFault, FailsOnlyLate
  <1>6. QED
    BY <1>2, <1>3, <1>4, <1>5, Zenon DEF ResolverInv

LEMMA AbandonInv == ASSUME ResolverInv, Abandon PROVE ResolverInv'
  <1>1. /\ DOMAIN query' = DOMAIN query /\ query'.result.kind = "abandoned"
        /\ CloseResolver /\ UNCHANGED <<faults, err, conf>>
    BY Zenon DEF Abandon, ResolverInv, Shape
  <1>2. /\ (Shape /\ FrameInv /\ AskInv /\ TcpInv)' /\ pc' = "closed"
        /\ ~udp'.icmp /\ ~tcp'.eof /\ tcp'.st # "refused"
    BY <1>1, CloseInv, Zenon
  <1>3. LateInv'
    BY <1>1, <1>2, Zenon DEF ResolverInv, LateInv, NoFault, FailsOnlyLate
  <1>4. QED
    BY <1>2, <1>3, Zenon DEF ResolverInv

-----------------------------------------------------------------------------
LEMMA ResolverInitInv == Init => ResolverInv
  <1> SUFFICES ASSUME Init PROVE ResolverInv
    BY Zenon
  <1>1. /\ Shape /\ FrameInv /\ AskInv /\ TcpInv /\ ~udp.icmp /\ ~tcp.eof /\ tcp.st # "refused"
    <2>1. /\ conf \in Confs /\ stack = [k \in 0..(MaxDepth - 1) |-> NewFrame] /\ sp = 0
          /\ so = SoInit(conf.type) /\ tcp = Closed /\ udp = UdpInit /\ pc \in {"exec", "closed"}
          /\ DOMAIN query = {"began", "tries", "deadline", "result"}
      BY Zenon DEF Init
    <2>2. QED
      BY <2>1, FreshInv, Zenon
  <1>2. LateInv
    BY <1>1, Zenon DEF Init, LateInv, FailsOnlyLate
  <1>3. QED
    BY <1>1, <1>2, Zenon DEF ResolverInv

LEMMA ResolverStutter == ASSUME ResolverInv, UNCHANGED vars PROVE ResolverInv'
  <1>1. UNCHANGED <<so, udp, tcp, faults, now, pc, err, conf, stack, sp, query>>
    BY Zenon DEF vars
  <1>2. Shape' /\ FrameInv' /\ F' = F
    BY <1>1, SameFrames, Zenon DEF ResolverInv
  <1>3. AskInv'
    BY <1>1, <1>2, Zenon DEF ResolverInv, AskInv, Matches
  <1>4. TcpInv'
    BY <1>1, <1>2, Zenon DEF ResolverInv, TcpInv, Stream, Good, Verify
  <1>5. LateInv'
    BY <1>1, Zenon DEF ResolverInv, LateInv, NoFault, FailsOnlyLate, Elapsed
  <1>6. QED
    BY <1>2, <1>3, <1>4, <1>5, Zenon DEF ResolverInv

LEMMA ResolverStepInv == ResolverInv /\ [Next]_vars => ResolverInv'
  <1> SUFFICES ASSUME ResolverInv, [Next]_vars PROVE ResolverInv'
    BY Zenon
  <1>1. CASE SoCheck /\ UNCHANGED <<conf, stack, sp, smart, query, log>>
    BY Zenon, <1>1, SoUdpConnInv, SoUdpSendInv, SoUdpRecvInv, SoUdpDoneInv, SoTcpInitInv, SoTcpConnInv,
       SoTcpSendInv, SoTcpRecvInv, SoTcpDoneInv DEF SoCheck
  <1>2. CASE Exec
    BY Zenon, <1>2, ExecMovesInv, ExecFileFullInv, ExecCallsInv, ExecBindInv, ExecForeachAInv, ExecResolv1Inv, ExecQueryAInv,
       ExecErrorInv, ExecDoneInv, ExecAnswerInv DEF Exec, ExecMoves
  <1>3. CASE Collect \/ CollectAll
    BY <1>3, CollectInv, Zenon
  <1>4. CASE Wake \/ Tick
    BY <1>4, WaitInv, Zenon
  <1>5. CASE Abandon
    BY <1>5, AbandonInv, Zenon
  <1>6. CASE Network
    BY <1>6, NetUdpInv, NetTcpInv, Zenon DEF Network, Net
  <1>7. CASE UNCHANGED vars
    BY <1>7, ResolverStutter, Zenon
  <1>8. QED
    BY <1>1, <1>2, <1>3, <1>4, <1>5, <1>6, <1>7, Zenon DEF Next, Program

LEMMA ResolverAlways == Spec => []ResolverInv
  BY ResolverInitInv, ResolverStepInv, PTL DEF Spec

\* Whatever order the replies of the network come in, and however often, a
\* packet kept in a frame of dns_res_exec() answers that frame's own question:
\* dns_so_verify() compares the question as well as the identifier, and the
\* socket is asked for one frame at a time.
THEOREM ResolverAnswerOwn == Spec => []AnswerOwn
  <1>1. ResolverInv => AnswerOwn
    BY ZenonT(30) DEF ResolverInv, FrameInv, AnswerOwn, Owned, Local
  <1>2. QED
    BY <1>1, ResolverAlways, PTL

\* When no server refuses and no connection breaks, a query that fails has used
\* its time up: every other path of dns_so_check() leads to an answer or EAGAIN,
\* and mydns_is_query_done() ends on EAGAIN only at its expiry.
THEOREM ResolverFailsOnlyLate == Spec => []FailsOnlyLate
  <1>1. ResolverInv => FailsOnlyLate
    BY Zenon DEF ResolverInv, LateInv, NoFault, FailsOnlyLate
  <1>2. QED
    BY <1>1, ResolverAlways, PTL


-----------------------------------------------------------------------------
(***************************************************************************)
(* When a query ends.  The polls of mydns_query() are after 2, 6, 14, ...  *)
(* seconds: each wait is as long as all the ones before it and two more.   *)
(***************************************************************************)
LEMMA PollTimes ==
  /\ PollAt(0) = 0
  /\ \A n \in 0..MaxTries : PollAt(n) \in Nat /\ 2 ^ n \in Nat \ {0}
  /\ \A n \in 0..(MaxTries - 1) : PollAt(n + 1) = PollAt(n) + 2 ^ (n + 1)
  <1>1. ASSUME NEW n \in 0..MaxTries
        PROVE  PollAt(n) \in Nat /\ 2 ^ n \in Nat \ {0} /\ PollAt(n) = 2 * 2 ^ n - 2
    <2>1. 2 ^ n \in Nat \ {0} /\ 2 ^ (n + 1) = 2 * 2 ^ n
      BY PollAssumption, Zenon
    <2>2. QED
      BY <2>1 DEF PollAt
  <1>2. ASSUME NEW n \in 0..(MaxTries - 1) PROVE PollAt(n + 1) = PollAt(n) + 2 ^ (n + 1)
    <2>1. n + 1 \in 0..MaxTries
      BY ResolverAssumption
    <2>2. 2 ^ (n + 1) \in Nat
      BY <2>1, PollAssumption, Zenon
    <2>3. PollAt(n + 1) = 2 * 2 ^ (n + 1) - 2
      BY <1>1, <2>1, Zenon
    <2>4. PollAt(n) = 2 ^ (n + 1) - 2
      BY DEF PollAt
    <2>5. QED
      BY <2>2, <2>3, <2>4
  <1>3. PollAt(0) = 0
    <2>1. 0 \in 0..MaxTries /\ 2 ^ 0 = 1
      BY ResolverAssumption, PollAssumption
    <2>2. PollAt(0) = 2 * 2 ^ 0 - 2
      BY <1>1, <2>1, Zenon
    <2>3. 2 * 1 - 2 = 0
      OBVIOUS
    <2>4. QED
      BY <2>1, <2>2, <2>3, Zenon
  <1>4. QED
    BY <1>1, <1>2, <1>3, Zenon

\* A set of numbers that is not empty has a least one.
LEMMA LeastNumber ==
  ASSUME NEW S, S \subseteq Nat, S # {}
  PROVE  \E n \in S : \A m \in S : n <= m
  <1>1. PICK n \in S : \A m \in S : ~(<<m, n>> \in OpToRel(<, Nat))
    BY NatLessThanWellFounded, WFMin, Zenon
  <1>2. ASSUME NEW m \in S PROVE n <= m
    <2>1. n \in Nat /\ m \in Nat
      BY Zenon
    <2>2. <<m, n>> \in OpToRel(<, Nat) <=> m < n
      BY <2>1, Zenon DEF OpToRel
    <2>3. ~(m < n)
      BY <1>1, <2>2, Zenon
    <2>4. QED
      BY <2>1, <2>3
  <1>3. QED
    BY <1>2, Zenon

\* The waits only get longer.
LEMMA PollGrows ==
  ASSUME NEW a \in 0..MaxTries, NEW b \in 0..MaxTries, a <= b PROVE PollAt(a) <= PollAt(b)
  <1> DEFINE Bad == {n \in Nat : n \in a..MaxTries /\ ~(PollAt(a) <= PollAt(n))}
  <1>1. SUFFICES ASSUME Bad # {} PROVE FALSE
    BY ResolverAssumption
  <1>2. PICK n \in Bad : \A m \in Bad : n <= m
    <2>1. Bad \subseteq Nat
      BY Zenon
    <2>2. QED
      BY <1>1, <2>1, LeastNumber, Zenon
  <1>3. n \in a..MaxTries /\ ~(PollAt(a) <= PollAt(n)) /\ \A m \in a..MaxTries : m < n => PollAt(a) <= PollAt(m)
    <2>1. ASSUME NEW m \in a..MaxTries, m < n PROVE PollAt(a) <= PollAt(m)
      <3>1. m \in Nat /\ ~(n <= m)
        BY <2>1
      <3>2. m \notin Bad
        BY <1>2, <3>1, Zenon
      <3>3. QED
        BY <3>1, <3>2, Zenon
    <2>2. QED
      BY <2>1, Zenon
  <1>4. n # a
    BY <1>3, PollTimes
  <1>5. /\ n - 1 \in a..MaxTries /\ n - 1 < n /\ n - 1 \in 0..(MaxTries - 1) /\ (n - 1) + 1 = n
    BY <1>3, <1>4, ResolverAssumption
  <1>6. PollAt(n) = PollAt(n - 1) + 2 ^ n /\ 2 ^ n \in Nat /\ PollAt(n - 1) \in Nat /\ PollAt(a) \in Nat
    BY <1>3, <1>5, PollTimes, ResolverAssumption
  <1>7. PollAt(a) <= PollAt(n - 1)
    BY <1>3, <1>5, Zenon
  <1>8. QED
    BY <1>3, <1>6, <1>7


LEMMA PollWait ==
  ASSUME NEW n \in 0..MaxTries PROVE PollTimeout(n) \in Nat \ {0} /\ (~conf.all => PollTimeout(n) = 2 ^ n)
  BY PollTimes DEF PollTimeout

LEMMA ConfExpires ==
  ASSUME ResolverInv
  PROVE  conf.expire \in Nat /\ \E k \in 0..MaxTries : PollAt(k) >= conf.expire
  BY PollAssumption, Zenon DEF ResolverInv, Shape

LEMMA TimeInit == Init => TimeInv
  <1> SUFFICES ASSUME Init PROVE TimeInv
    OBVIOUS
  <1>1. /\ now = 0 /\ pc = "exec" /\ query.began = 0 /\ query.tries = 0 /\ query.deadline = 0
        /\ DOMAIN log = {"asked", "replied", "data"} /\ log.data = FALSE
    BY Zenon DEF Init
  <1>2. 0 \in 0..MaxTries /\ conf.expire \in Nat
    BY ResolverAssumption, ConfExpires, ResolverInitInv
  <1>3. PollTimeout(0) \in Nat \ {0} /\ PollAt(0) = 0
    BY <1>2, PollWait, PollTimes, Zenon
  <1>4. now < conf.expire + PollTimeout(query.tries) /\ \A m \in 0..(query.tries - 1) : FALSE
    BY <1>1, <1>2, <1>3
  <1>5. now = PollAt(query.tries) /\ now <= PollAt(query.tries)
    BY <1>1, <1>3
  <1>6. /\ now \in Nat /\ query.tries \in 0..MaxTries /\ query.deadline \in Nat
    BY <1>1, <1>2
  <1>7. QED
    BY <1>1, <1>4, <1>5, <1>6, Zenon DEF TimeInv

\* Most steps take no time and do not touch what the driver counts.
Timeless ==
    /\ UNCHANGED <<now, conf, query>> /\ DOMAIN log' = DOMAIN log /\ log'.data = log.data
    /\ pc' = pc \/ {pc, pc'} \cap {"wait", "closed"} = {}

LEMMA TimelessInv == ASSUME TimeInv, Timeless PROVE TimeInv'
  BY Zenon DEF TimeInv, Timeless, Silent, PollTimeout

LEMMA ExecTimeless == ASSUME TimeInv, Exec PROVE Timeless
  <1>1. ASSUME UNCHANGED <<now, conf, query, log>>, pc' = pc \/ {pc, pc'} \cap {"wait", "closed"} = {}
        PROVE  Timeless
    BY <1>1, Zenon DEF Timeless
  <1>2. CASE ExecForeachA
    <2>1. UNCHANGED <<now, conf, query, pc>> /\ (log' = log \/ \E x : log' = [log EXCEPT !.asked = x])
      BY <1>2, Zenon DEF ExecForeachA
    <2>2. QED
      BY <2>1, Zenon DEF TimeInv, Timeless
  <1>3. CASE ExecAnswer
    <2>1. /\ UNCHANGED <<now, conf, query>> /\ pc = "checked" /\ pc' = "exec"
          /\ log' = [log EXCEPT !.replied = TRUE]
      BY <1>3, Zenon DEF ExecAnswer
    <2>2. QED
      BY <2>1, Zenon DEF TimeInv, Timeless
  <1>4. CASE ExecFileFull \/ ExecResolv1 \/ ExecQueryA \/ ExecDone \/ ExecError
    BY <1>1, <1>4, Zenon DEF ExecFileFull, ExecResolv1, ExecQueryA, ExecDone, ExecError, At, Running
  <1>5. CASE ExecFinish \/ ExecSmart0
    BY <1>1, <1>5, Zenon DEF ExecFinish, ExecSmart0, Running
  <1>6. CASE \/ ExecInit \/ ExecSwitch \/ ExecFile \/ ExecBind \/ ExecHints \/ ExecIterate \/ ExecForeachNs
             \/ ExecResolv0 \/ ExecCname0 \/ ExecCname1 \/ ExecSmart1 \/ ExecServfail
    <2>1. Running /\ Stays
      BY <1>6, Zenon DEF ExecInit, ExecSwitch, ExecFile, ExecBind, ExecHints, ExecIterate, ExecForeachNs,
                  ExecResolv0, ExecCname0, ExecCname1, ExecSmart1, ExecServfail
    <2>2. QED
      BY <1>1, <2>1, Zenon DEF Running, Stays
  <1>7. QED
    BY <1>2, <1>3, <1>4, <1>5, <1>6, Zenon DEF Exec

LEMMA SoTimeless ==
  ASSUME SoCheck \/ Net, UNCHANGED <<conf, stack, sp, smart, query, log>> PROVE Timeless
  <1>1. CASE SoCheck
    <2>1. now' = now /\ pc = "check" /\ pc' \in {"check", "checked"}
      BY <1>1, ZenonT(30) DEF SoCheck, SoUdpConn, SoUdpSend, SoUdpRecv, SoUdpDone, SoTcpInit, SoTcpConn, SoTcpSend,
                  SoTcpRecv, SoTcpDone, Checking, Stay, Return
    <2>2. QED
      BY <2>1, Zenon DEF Timeless
  <1>2. CASE Net
    BY <1>2, Zenon DEF Net, NetReply, NetRefuse, NetTcpConnect, NetTcpReply, NetTcpEof, Timeless
  <1>3. QED
    BY <1>1, <1>2, Zenon


LEMMA ClosingTime ==
  ASSUME TimeInv, CloseResolver, UNCHANGED <<now, conf, log>>, DOMAIN query = {"began", "tries", "deadline", "result"},
         \E r : query' = [query EXCEPT !.result = r], pc # "closed"
  PROVE  TimeInv'
  <1>1. /\ pc' = "closed" /\ query'.began = query.began /\ query'.tries = query.tries
        /\ query'.deadline = query.deadline
    BY DEF CloseResolver
  <1>2. QED
    BY <1>1, Zenon DEF TimeInv, Silent, PollTimeout

\* The next wait begins before the expiry, so there is a poll left to count.
LEMMA YieldsTime ==
  ASSUME ResolverInv, TimeInv, pc = "returned", Yields, ~IsQueryDone, UNCHANGED <<now, conf, log>>
  PROVE  TimeInv'
  <1> DEFINE t == query.tries
             e == conf.expire
  <1>0. PICK u : u = IF t < MaxTries THEN t + 1 ELSE t
    BY Zenon
  <1>1. /\ query'.began = 0 /\ query'.tries = u /\ query'.deadline = now + PollTimeout(u) /\ pc' = "wait"
        /\ PollTimeout(u)' = PollTimeout(u) /\ PollTimeout(query.tries)' = PollTimeout(u)
    BY <1>0, Zenon DEF Yields, ResolverInv, Shape, TimeInv, PollTimeout
  <1>2. e \in Nat /\ now \in Nat /\ now < e /\ t \in 0..MaxTries /\ MaxTries \in Nat
    BY ConfExpires, ResolverAssumption DEF IsQueryDone, Elapsed, TimeInv
  <1>3. u \in 0..MaxTries
    BY <1>0, <1>2
  <1>4. PollTimeout(u) \in Nat \ {0} /\ (~conf.all => PollTimeout(u) = 2 ^ u)
    BY <1>3, PollWait, Zenon
  <1>5. /\ query'.deadline \in Nat /\ now < e + PollTimeout(u) /\ now <= query'.deadline
        /\ query'.deadline < e + PollTimeout(u)
    <2>1. \A w \in Nat \ {0} : now + w \in Nat /\ now < e + w /\ now <= now + w /\ now + w < e + w
      BY <1>2
    <2>2. QED
      BY <1>1, <1>4, <2>1, Zenon
  <1>6. ASSUME Silent
        PROVE  /\ \A m \in 0..(u - 1) : PollAt(m) < e
               /\ now <= PollAt(u) /\ query'.deadline = PollAt(u)
    <2>1. now = PollAt(t) /\ \A m \in 0..(t - 1) : PollAt(m) < e
      BY <1>6, Zenon DEF TimeInv
    <2>2. \A m \in 0..t : PollAt(m) < e
      <3>1. \A m \in 0..t : m = t \/ m \in 0..(t - 1)
        BY <1>2
      <3>2. QED
        BY <1>2, <2>1, <3>1, Zenon
    <2>3. t # MaxTries
      <3>1. PICK k \in 0..MaxTries : PollAt(k) >= e
        BY ConfExpires, Zenon
      <3>2. PollAt(k) \in Nat
        BY PollTimes, Zenon
      <3>3. ~(PollAt(k) < e)
        BY <1>2, <3>1, <3>2
      <3>4. QED
        BY <2>2, <3>3, Zenon
    <2>4. u = t + 1 /\ t \in 0..(MaxTries - 1) /\ u - 1 = t
      BY <1>0, <1>2, <2>3
    <2>5. PollAt(u) = now + PollTimeout(u)
      BY <1>4, <1>6, <2>1, <2>4, PollTimes, Zenon DEF Silent
    <2>6. QED
      BY <1>1, <1>5, <2>2, <2>4, <2>5, Zenon
  <1>7. Silent' = Silent
    BY Zenon DEF Silent
  <1>8. QED
    <2>1. /\ now' = now /\ conf' = conf /\ log' = log
          /\ DOMAIN log = {"asked", "replied", "data"} /\ log.data \in BOOLEAN
      BY Zenon DEF TimeInv
    <2>2. /\ Silent' => /\ \A m \in 0..(query'.tries - 1) : PollAt(m) < conf'.expire
                        /\ now' <= PollAt(query'.tries) /\ query'.deadline = PollAt(query'.tries)
      BY <1>1, <1>6, <1>7, <2>1, Zenon
    <2>3. /\ now' < conf'.expire + PollTimeout(query.tries)' /\ now' <= query'.deadline
          /\ query'.deadline < conf'.expire + PollTimeout(query.tries)' /\ query'.deadline \in Nat
          /\ now' \in Nat /\ query'.tries \in 0..MaxTries
      BY <1>1, <1>2, <1>3, <1>5, <2>1, Zenon
    <2>4. QED
      BY <1>1, <2>1, <2>2, <2>3, Zenon DEF TimeInv


LEMMA CollectTime == ASSUME ResolverInv, TimeInv, Collect \/ CollectAll PROVE TimeInv'
  <1>1. /\ pc = "returned" /\ UNCHANGED <<now, conf, log>>
        /\ IF IsQueryDone THEN \E timedOut : Answered(timedOut) ELSE Yields
    BY Zenon DEF Collect, CollectAll
  <1>2. CASE IsQueryDone
    BY <1>1, <1>2, ClosingTime, Zenon DEF Answered, ResolverInv, Shape
  <1>3. CASE ~IsQueryDone
    BY <1>1, <1>3, YieldsTime, Zenon
  <1>4. QED
    BY <1>2, <1>3, Zenon

\* A wait that no data ends lasts until its deadline.
LEMMA WakeTime == ASSUME TimeInv, Wake PROVE TimeInv'
  <1>1. /\ pc = "wait" /\ pc' = "exec" /\ UNCHANGED <<now, conf, query>>
        /\ DOMAIN log' = DOMAIN log /\ log'.data = (log.data \/ Readable)
        /\ Readable \/ now >= query.deadline \/ conf.all
    BY Zenon DEF Wake, TimeInv
  <1>2. Silent' => Silent /\ now = PollAt(query.tries)
    <2>1. SUFFICES ASSUME Silent' PROVE Silent /\ now = PollAt(query.tries)
      OBVIOUS
    <2>2. Silent /\ ~Readable
      BY <1>1, <2>1, Zenon DEF Silent
    <2>3. now >= query.deadline /\ now <= query.deadline /\ query.deadline = PollAt(query.tries)
      BY <1>1, <2>2, Zenon DEF TimeInv, Silent
    <2>4. now \in Nat /\ query.deadline \in Nat
      BY Zenon DEF TimeInv
    <2>5. QED
      BY <2>2, <2>3, <2>4
  <1>3. log'.data \in BOOLEAN
    BY <1>1, Zenon
  <1>4. PollTimeout(query.tries)' = PollTimeout(query.tries)
    BY <1>1, Zenon DEF PollTimeout
  <1>5. QED
    BY <1>1, <1>2, <1>3, <1>4, Zenon DEF TimeInv

LEMMA TickTime == ASSUME ResolverInv, TimeInv, Tick PROVE TimeInv'
  <1>1. /\ pc = "wait" /\ now < query.deadline /\ now' = now + 1 /\ UNCHANGED <<pc, conf, query, log>>
    BY Zenon DEF Tick
  <1>2. /\ now \in Nat /\ query.deadline \in Nat /\ query.tries \in 0..MaxTries /\ conf.expire \in Nat
        /\ query.deadline < conf.expire + PollTimeout(query.tries)
    BY <1>1, ConfExpires, Zenon DEF TimeInv
  <1>3. PollTimeout(query.tries) \in Nat /\ PollTimeout(query.tries)' = PollTimeout(query.tries)
    BY <1>1, <1>2, PollWait, Zenon DEF PollTimeout
  <1>4. now' \in Nat /\ now' <= query.deadline /\ now' < conf.expire + PollTimeout(query.tries)
    BY <1>1, <1>2, <1>3
  <1>5. Silent' = Silent
    BY <1>1, Zenon DEF Silent
  <1>6. QED
    BY <1>1, <1>3, <1>4, <1>5, Zenon DEF TimeInv

LEMMA TimeStep == ResolverInv /\ TimeInv /\ [Next]_vars => TimeInv'
  <1> SUFFICES ASSUME ResolverInv, TimeInv, [Next]_vars PROVE TimeInv'
    BY Zenon
  <1>1. CASE (SoCheck \/ Net) /\ UNCHANGED <<conf, stack, sp, smart, query, log>>
    BY <1>1, SoTimeless, TimelessInv, Zenon
  <1>2. CASE Exec
    BY <1>2, ExecTimeless, TimelessInv, Zenon
  <1>3. CASE Collect \/ CollectAll
    BY <1>3, CollectTime, Zenon
  <1>4. CASE Wake
    BY <1>4, WakeTime, Zenon
  <1>5. CASE Tick
    BY <1>5, TickTime, Zenon
  <1>6. CASE Abandon
    BY <1>6, ClosingTime, Zenon DEF Abandon, ResolverInv, Shape
  <1>7. CASE UNCHANGED vars
    <2>1. Timeless
      BY <1>7, Zenon DEF vars, Timeless
    <2>2. QED
      BY <2>1, TimelessInv, Zenon
  <1>8. QED
    BY <1>1, <1>2, <1>3, <1>4, <1>5, <1>6, <1>7, Zenon DEF Next, Program, Network

\* No poll before the one that ended the query was late enough to end it.
LEMMA SilentEnds ==
  ASSUME ResolverInv, TimeInv, Silent PROVE now <= SilentEnd(conf.expire)
  <1> DEFINE enough == {k \in 0..MaxTries : PollAt(k) >= conf.expire}
             last == CHOOSE k \in enough : \A m \in enough : k <= m
  <1>1. conf.expire \in Nat /\ enough # {} /\ enough \subseteq Nat
    BY ConfExpires
  <1>2. last \in enough
    BY <1>1, LeastNumber, Zenon
  <1>3. /\ now <= PollAt(query.tries) /\ query.tries \in 0..MaxTries /\ now \in Nat
        /\ \A m \in 0..(query.tries - 1) : PollAt(m) < conf.expire
    BY Zenon DEF TimeInv
  <1>4. last \in 0..MaxTries /\ ~(PollAt(last) < conf.expire)
    <2>1. last \in 0..MaxTries /\ PollAt(last) >= conf.expire
      BY <1>2, Zenon
    <2>2. PollAt(last) \in Nat
      BY <2>1, PollTimes, Zenon
    <2>3. QED
      BY <1>1, <2>1, <2>2
  <1>5. last \notin 0..(query.tries - 1)
    BY <1>3, <1>4, Zenon
  <1>6. query.tries <= last
    BY <1>3, <1>4, <1>5
  <1>7. PollAt(query.tries) <= PollAt(last) /\ PollAt(query.tries) \in Nat /\ PollAt(last) \in Nat
    BY <1>3, <1>4, <1>6, PollGrows, PollTimes, Zenon
  <1>8. now <= PollAt(last)
    BY <1>3, <1>7
  <1>9. QED
    BY <1>8, Zenon DEF SilentEnd

\* A query ends in time, however many polls it takes: it overshoots its expiry
\* by less than the wait it is in, and a query nobody answers ends at the first
\* of the doubling polls that is not before the expiry.
THEOREM ResolverEndsInTime == Spec => []EndsInTime
  <1>1. ResolverInv /\ TimeInv => EndsInTime
    <2> SUFFICES ASSUME ResolverInv, TimeInv PROVE EndsInTime
      BY Zenon
    <2>1. Elapsed = now /\ now < conf.expire + PollTimeout(query.tries)
      BY DEF TimeInv, Elapsed
    <2>2. Silent => now <= SilentEnd(conf.expire)
      BY SilentEnds, Zenon
    <2>3. QED
      BY <2>1, <2>2, Zenon DEF EndsInTime, Silent
  <1>2. QED
    BY <1>1, ResolverAlways, TimeInit, TimeStep, PTL DEF Spec


-----------------------------------------------------------------------------
(***************************************************************************)
(* Types.                                                                  *)
(***************************************************************************)
SoOK(s) == s.old \in Nat /\ s.qout \in 0..QLen /\ s.apos \in 0..2

RestOK ==
    /\ faults = conf.faults /\ smart \in Nat /\ SoOK(so)
    /\ pc \in {"exec", "check", "checked", "returned", "wait", "closed"}

LEMMA SoCheckTypes ==
  ASSUME ResolverInv, RestOK, SoCheck PROVE SoOK(so') /\ pc' \in {"check", "checked"} /\ faults' = faults
  <1>1. DOMAIN so = SoFields /\ SoOK(so) /\ QLen \in Nat
    BY DnsSocketAssumption, Zenon DEF ResolverInv, Shape, RestOK
  <1>2. pc = "check" /\ pc' \in {"check", "checked"} /\ faults' = faults
    BY ZenonT(30) DEF SoCheck, SoUdpConn, SoUdpSend, SoUdpRecv, SoUdpDone, SoTcpInit, SoTcpConn, SoTcpSend,
           SoTcpRecv, SoTcpDone, Checking, Stay, Return
  <1>3. CASE SoUdpConn \/ SoUdpSend \/ SoUdpRecv \/ SoUdpDone \/ SoTcpConn
    <2>1. so' = so \/ (\E st : so' = [so EXCEPT !.state = st])
                   \/ (\E st, p : so' = [so EXCEPT !.answer = p, !.state = st])
      BY <1>3, Zenon DEF SoUdpConn, SoUdpSend, SoUdpRecv, SoUdpDone, SoTcpConn
    <2>2. QED
      BY <1>1, <1>2, <2>1, ZenonT(30) DEF SoOK, SoFields
  <1>4. CASE SoTcpInit \/ SoTcpDone
    BY <1>1, <1>2, <1>4 DEF SoTcpInit, SoTcpDone, CloseFd, SoOK, SoFields
  <1>5. CASE SoTcpSend
    <2>1. PICK n \in 1..(QLen - so.qout) : \E st : so' = [so EXCEPT !.qout = @ + n, !.state = st]
      BY <1>5, Zenon DEF SoTcpSend
    <2>2. so.qout + n \in 0..QLen
      BY <1>1 DEF SoOK
    <2>3. QED
      BY <1>1, <1>2, <2>1, <2>2, Zenon DEF SoOK, SoFields
  <1>6. CASE SoTcpRecv
    <2>1. \/ so' = so \/ so' = [so EXCEPT !.apos = 1]
          \/ \E p : so' = [so EXCEPT !.apos = 2, !.answer = p, !.state = "TCP_DONE"]
      BY <1>6, Zenon DEF SoTcpRecv
    <2>2. so'.old = so.old /\ so'.qout = so.qout /\ (so'.apos = so.apos \/ so'.apos = 1 \/ so'.apos = 2)
      BY <1>1, <2>1, Zenon DEF SoFields
    <2>3. QED
      BY <1>1, <1>2, <2>2 DEF SoOK
  <1>7. QED
    BY <1>3, <1>4, <1>5, <1>6, Zenon DEF SoCheck

LEMMA ExecTypes == ASSUME ResolverInv, RestOK, Exec PROVE RestOK'
  <1> USE DEF RestOK
  <1>1. DOMAIN so = SoFields
    BY Zenon DEF ResolverInv, Shape
  <1>2. CASE ExecForeachA
    <2>1. /\ UNCHANGED <<faults, conf, pc, smart>> /\ (so' = so \/ \E q, r : so' = Submit(q, r))
      BY <1>2, Zenon DEF ExecForeachA
    <2>2. \A q, r : SoOK(Submit(q, r))
      BY DnsSocketAssumption DEF Submit, SoReset, SoOK
    <2>3. SoOK(so')
      BY <2>1, <2>2, Zenon
    <2>4. QED
      BY <2>1, <2>3, Zenon
  <1>3. CASE ExecAnswer
    <2>1. UNCHANGED <<faults, conf, smart>> /\ pc' = "exec" /\ so' = [so EXCEPT !.answer = None]
      BY <1>3, Zenon DEF ExecAnswer
    <2>2. QED
      BY <1>1, <2>1, Zenon DEF SoOK, SoFields
  <1>4. CASE ExecFileFull \/ ExecResolv1 \/ ExecQueryA \/ ExecDone \/ ExecError
    BY <1>4, Zenon DEF ExecFileFull, ExecResolv1, ExecQueryA, ExecDone, ExecError, Running
  <1>5. CASE ExecFinish \/ ExecSmart0
    BY <1>5 DEF ExecFinish, ExecSmart0, Running
  <1>6. CASE \/ ExecInit \/ ExecSwitch \/ ExecFile \/ ExecBind \/ ExecHints \/ ExecIterate \/ ExecForeachNs
             \/ ExecResolv0 \/ ExecCname0 \/ ExecCname1 \/ ExecSmart1 \/ ExecServfail
    <2>1. Running /\ Stays
      BY <1>6, Zenon DEF ExecInit, ExecSwitch, ExecFile, ExecBind, ExecHints, ExecIterate, ExecForeachNs,
                  ExecResolv0, ExecCname0, ExecCname1, ExecSmart1, ExecServfail
    <2>2. QED
      BY <2>1, Zenon DEF Running, Stays
  <1>7. QED
    BY <1>2, <1>3, <1>4, <1>5, <1>6, Zenon DEF Exec

LEMMA TypesInit == Init => RestOK
  BY DnsSocketAssumption DEF Init, RestOK, SoOK, SoInit, SoReset

LEMMA TypesStep == ResolverInv /\ RestOK /\ [Next]_vars => RestOK'
  <1> SUFFICES ASSUME ResolverInv, RestOK, [Next]_vars PROVE RestOK'
    BY Zenon
  <1>1. CASE SoCheck /\ UNCHANGED <<conf, stack, sp, smart, query, log>>
    BY <1>1, SoCheckTypes, Zenon DEF RestOK
  <1>2. CASE Exec
    BY <1>2, ExecTypes, Zenon
  <1>3. CASE Collect \/ CollectAll \/ Abandon
    <2>1. /\ UNCHANGED <<faults, conf, smart>>
          /\ (CloseResolver \/ (pc' = "wait" /\ so' = so))
      BY <1>3, Zenon DEF Collect, CollectAll, Abandon, Answered, Yields
    <2>2. \A type : SoOK(SoInit(type))
      BY DnsSocketAssumption DEF SoInit, SoReset, SoOK
    <2>3. SoOK(so') /\ pc' \in {"wait", "closed"}
      BY <2>1, <2>2 DEF CloseResolver, RestOK
    <2>4. QED
      BY <2>1, <2>3, Zenon DEF RestOK
  <1>4. CASE Wake \/ Tick
    BY <1>4, Zenon DEF Wake, Tick, RestOK
  <1>5. CASE Network
    BY <1>5, Zenon DEF Network, Net, NetReply, NetRefuse, NetTcpConnect, NetTcpReply, NetTcpEof, RestOK
  <1>6. CASE UNCHANGED vars
    BY <1>6, Zenon DEF vars, RestOK
  <1>7. QED
    BY <1>1, <1>2, <1>3, <1>4, <1>5, <1>6, Zenon DEF Next, Program

\* R->sp never leaves R->stack, the question is never sent past its end, and
\* the driver's count of polls stays within its bound.
THEOREM ResolverTypeCorrect == Spec => []TypeOK
  <1>1. ResolverInv /\ TimeInv /\ RestOK => TypeOK
    BY DEF ResolverInv, Shape, TimeInv, RestOK, SoOK, TypeOK
  <1>2. QED
    BY <1>1, ResolverAlways, TimeInit, TimeStep, TypesInit, TypesStep, PTL DEF Spec
=============================================================================
