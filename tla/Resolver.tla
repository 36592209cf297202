------------------------------ MODULE Resolver -------------------------------
(***************************************************************************)
(* One call of ratchet.dns.query(): libdns' struct dns_resolver, whose     *)
(* dns_res_exec() is a stack of frames each running a small state machine, *)
(* over the DnsSocket, and the driver in dns.c that polls it.              *)
(*                                                                         *)
(* Every case of dns_res_exec() is an action, enabled while pc = "exec"    *)
(* for the frame on top of the stack.  The thread runs on its own between  *)
(* two yields: pc goes from "exec" to "check" (inside dns_so_check()),     *)
(* "checked", "returned" (dns_res_check() is back in mydns_is_query_done)  *)
(* and "wait" (yielded to the kernel).                                     *)
(*                                                                         *)
(* Names are sequences of labels, resource records [name, type, data], and *)
(* a packet has its three record sections as sequences, in packet order.   *)
(***************************************************************************)
EXTENDS DnsSocket, ResConf

CONSTANTS
    Confs,       \* the configurations and calls looked at
    MaxDepth,    \* DNS_R_MAXDEPTH
    GlueRoom,    \* records the buffer of a hints packet has room for
    HostsRoom,   \* records the 512 octets of dns_hosts_query() have room for
    MaxTries     \* bound on the count of polls (the wait it stands for outlasts all)

ASSUME ResolverAssumption == MaxDepth \in Nat \ {0} /\ GlueRoom \in Nat /\ HostsRoom \in Nat
                               /\ MaxTries \in Nat

\* The times of the polls when nothing arrives: after 2, 6, 14, ... seconds.
PollAt(tries) == 2 ^ (tries + 1) - 2

\* The bound on the polls outlasts every query, and what the provers do not know
\* about powers of two.
ASSUME PollAssumption ==
    /\ \A c \in Confs : c.expire \in Nat /\ \E k \in 0..MaxTries : PollAt(k) >= c.expire
    /\ 2 ^ 0 = 1
    /\ \A n \in 0..MaxTries : 2 ^ n \in Nat \ {0} /\ 2 ^ (n + 1) = 2 * 2 ^ n

VARIABLES
    conf,     \* the struct dns_resolv_conf, hosts, hints and the call's arguments
    stack, sp,\* R->stack, R->sp
    smart,    \* R->smart: the record it has come to, how many it has handed out
    query,    \* the driver: tries, the wait's deadline, the result
    log       \* history: the servers asked at depth 0, whether a reply was taken, whether data woke it

vars == <<so, udp, tcp, wire, faults, now, pc, err, conf, stack, sp, smart, query, log>>
socket == <<so, udp, tcp, wire, faults, now>>

Rr(name, type, data) == [name |-> name, type |-> type, data |-> data]
Records(p) == p.an \o p.ns \o p.ar
Has(s, name, type) == \E i \in DOMAIN s : s[i].name = name /\ s[i].type = type
Named(s, name, type) == SelectSeq(s, LAMBDA r : r.name = name /\ r.type = type)
OfType(s, type) == SelectSeq(s, LAMBDA r : r.type = type)

MkPacket(q, an, ns, ar) ==
    [qid |-> 0, qname |-> q.qname, qtype |-> q.qtype, from |-> None,
     an |-> an, ns |-> ns, ar |-> ar, aa |-> FALSE, tc |-> FALSE, runt |-> FALSE]
MkQuery(name, type, rd) == [qid |-> 0, qname |-> name, qtype |-> type, rd |-> rd]

NoIter == [exec |-> 0, seed |-> None, next |-> 0, orig |-> 0]
\* dns_res_reset_frame()
NewFrame == [state |-> "INIT", which |-> 0, attempts |-> 0, query |-> None,
             answer |-> None, hints |-> None, i |-> NoIter, saved |-> NoIter,
             j |-> 0, ns |-> 0, visited |-> {}]

F == stack[sp]
At(s) == pc = "exec" /\ F.state = s

-----------------------------------------------------------------------------
(* The packets dns_res_exec() builds.                                      *)

Hints == <<"hints", "local">>
\* dns_hints_query(): the configured servers as glue of one name server, in
\* the order of dns_hints_grep(): of priority, or shuffled under "rotate".
HintsPackets(q) ==
    LET n == Len(conf.servers)
        Orders == IF conf.rotate
                  THEN {o \in [1..n -> 1..n] : \A a, b \in 1..n : o[a] = o[b] => a = b}
                  ELSE {[k \in 1..n |-> k]}
        A(o) == [k \in 1..n |-> Rr(Hints, conf.servers[o[k]].type, conf.servers[o[k]].addr)]
    IN  {MkPacket(q, <<>>, <<Rr(<<>>, "NS", Hints)>>, A(o)) : o \in Orders}

\* dns_hosts_query() for an address type.
HostsAnswer(q) ==
    MkPacket(q, SelectSeq(conf.hosts, LAMBDA r : r.name = q.qname /\ r.type = q.qtype),
             <<>>, <<>>)

\* dns_res_glue(): what the frames' answers already say about a question.
GlueRecords(q, type) ==
    LET Of(k) == IF stack[k].answer = None THEN <<>>
                 ELSE Named(Records(stack[k].answer), q.qname, type)
        upto[k \in 0..MaxDepth] == IF k = 0 THEN Of(0) ELSE upto[k - 1] \o Of(k)
    IN  upto[sp]
Glue(q) ==
    LET direct == GlueRecords(q, q.qtype)
        alias == GlueRecords(q, "CNAME")
    IN  IF direct # <<>> THEN MkPacket(q, direct, <<>>, <<>>)
        ELSE IF alias # <<>> THEN MkPacket(q, alias, <<>>, <<>>)
        ELSE None

\* dns_res_merge(): section by section, the records of both packets that are
\* not in the new packet yet.
AddNew(s, t, before) ==
    LET Seen(u) == before \cup {u[m] : m \in DOMAIN u}
        new[k \in 0..Len(t)] ==
          IF k = 0 THEN s
          ELSE IF t[k] \in Seen(new[k - 1]) THEN new[k - 1] ELSE Append(new[k - 1], t[k])
    IN  new[Len(t)]
Merge(p, q) ==
    LET Set(s) == {s[k] : k \in DOMAIN s}
        Both(s, t, before) == AddNew(AddNew(<<>>, s, before), t, before)
        an == Both(p.an, q.an, {})
        ns == Both(p.ns, q.ns, Set(an))
    IN  MkPacket(p, an, ns, Both(p.ar, q.ar, Set(an) \cup Set(ns)))

-----------------------------------------------------------------------------
(* The sorted iteration over the NS records of F->hints.                   *)

\* Where the first A record for the host of NS record k is: 0 for nowhere.
GlueAt(p, k) ==
    LET r == Records(p)
        at == {m \in DOMAIN r : r[m].name = p.ns[k].data /\ r[m].type = "A"}
    IN  IF at = {} THEN 0 ELSE CHOOSE m \in at : \A l \in at : m <= l

\* dns_res_nameserv_cmp() < 0: glued servers first, original glue before glue
\* found since the iteration began, the rest by the shuffle.
NsBefore(p, it, a, b) ==
    LET glued(k) == GlueAt(p, k) # 0
        orig(k) == GlueAt(p, k) <= it.orig
    IN  IF glued(a) # glued(b) THEN glued(a)
        ELSE IF orig(a) # orig(b) THEN orig(a)
        ELSE it.seed[a] < it.seed[b]

NsOf(p) == {k \in DOMAIN p.ns : p.ns[k].type = "NS"}
Least(p, it, S) == IF S = {} THEN 0
                   ELSE CHOOSE k \in S : \A m \in S \ {k} : NsBefore(p, it, k, m)
Seeds(p) == {o \in [NsOf(p) -> 1..Cardinality(NsOf(p))] :
               \A a, b \in NsOf(p) : o[a] = o[b] => a = b}

\* dns_rr_grep(..., 1, ...): hands out "next" and finds the one after it; the
\* first call of an iteration shuffles anew (dns_rr_i_start).
GrepNs(p, it, seed) ==
    LET begun == [it EXCEPT !.exec = 1, !.seed = seed]
        cur == IF it.exec = 0 THEN Least(p, begun, NsOf(p)) ELSE it.next
        here == IF it.exec = 0 THEN begun ELSE it
        rest == {k \in NsOf(p) : NsBefore(p, here, cur, k)}
    IN  [ns |-> cur,
         it |-> IF cur = 0 THEN here ELSE [here EXCEPT !.next = Least(p, here, rest)]]

-----------------------------------------------------------------------------
(* The cases of dns_res_exec().                                            *)

Goto(s) == stack' = [stack EXCEPT ![sp].state = s] /\ UNCHANGED sp
Becomes(f) == stack' = [stack EXCEPT ![sp] = f] /\ UNCHANGED sp
\* &F[1] >= endof(R->stack)
Deepest == sp + 1 >= MaxDepth
\* The frame above is set up with query q; this one goes on in state s.
Call(s, q) ==
    /\ stack' = [stack EXCEPT ![sp].state = s, ![sp + 1] = [NewFrame EXCEPT !.query = q]]
    /\ sp' = sp + 1
Running == UNCHANGED <<so, udp, tcp, wire, faults, now, conf, query>>
Stays == UNCHANGED <<pc, err, smart, log>>

ExecInit ==
    /\ At("INIT")
    /\ LET glue == IF sp = 0 THEN None ELSE Glue(F.query)
       IN  IF glue = None THEN Goto("SWITCH")
           ELSE Becomes([F EXCEPT !.answer = glue,
                           !.state = IF Has(glue.an, F.query.qname, F.query.qtype)
                                     THEN "FINISH" ELSE "CNAME0_A"])
    /\ Running /\ Stays

\* The next of 'b' (BIND) and 'f' (FILE) in resconf->lookup; ratchet opens its
\* resolvers without a cache, so 'c' is passed over.
ExecSwitch ==
    /\ At("SWITCH")
    /\ LET ahead == {k \in DOMAIN conf.lookup : k > F.which /\ conf.lookup[k] \in {"b", "f"}}
           k == CHOOSE n \in ahead : \A m \in ahead : n <= m
       IN  Becomes(IF ahead = {}
                   THEN [F EXCEPT !.which = Len(conf.lookup), !.state = "SERVFAIL"]
                   ELSE [F EXCEPT !.which = k,
                                  !.state = IF conf.lookup[k] = "b" THEN "BIND" ELSE "FILE"])
    /\ Running /\ Stays

SearchList == Candidates(conf.qname, Dots(conf.qname, FALSE), conf.search, conf)

\* The first of the names that the hosts table has an address for.
FileAnswer ==
    LET names == IF sp > 0 THEN <<F.query.qname>> ELSE SearchList
        type == IF sp > 0 THEN F.query.qtype ELSE conf.qtype
        ans(k) == HostsAnswer(MkQuery(names[k], type, FALSE))
        hit == {k \in DOMAIN names : ans(k).an # <<>>}
    IN  IF hit = {} THEN None ELSE ans(CHOOSE n \in hit : \A m \in hit : n <= m)
InRoom(p) == p # None => Len(p.an) <= HostsRoom

ExecFile ==
    /\ At("FILE") /\ InRoom(FileAnswer)
    /\ Becomes([F EXCEPT !.answer = FileAnswer,
                         !.state = IF FileAnswer = None THEN "SWITCH" ELSE "FINISH"])
    /\ Running /\ Stays

\* More addresses than the packet has room for end the query.
ExecFileFull ==
    /\ At("FILE") /\ ~InRoom(FileAnswer)
    /\ Becomes([F EXCEPT !.answer = None])
    /\ pc' = "returned" /\ err' = "ENOBUFS"
    /\ Running /\ UNCHANGED <<smart, log>>

\* BIND and SEARCH: R->search starts over and one candidate is taken.
ExecBind ==
    /\ At("BIND")
    /\ Becomes(IF sp > 0 THEN [F EXCEPT !.state = "HINTS"]
               ELSE [F EXCEPT !.state = "HINTS",
                       !.query = MkQuery(SearchList[1], conf.qtype, ~conf.recurse)])
    /\ Running /\ Stays

ExecHints ==
    /\ At("HINTS")
    /\ \E p \in HintsPackets(F.query) : Becomes([F EXCEPT !.hints = p, !.state = "ITERATE"])
    /\ Running /\ Stays

ExecIterate ==
    /\ At("ITERATE")
    /\ LET it == [NoIter EXCEPT !.orig = Len(Records(F.hints))]
       IN  Becomes([F EXCEPT !.i = it, !.saved = it, !.visited = {}, !.state = "FOREACH_NS"])
    /\ Running /\ Stays

\* Mutant: a pass is not counted.
ForeachNsUncounted ==
    /\ At("FOREACH_NS")
    /\ \E seed \in IF F.i.exec = 0 THEN Seeds(F.hints) ELSE {F.i.seed} :
          LET g == GrepNs(F.hints, F.i, seed)
              f == [F EXCEPT !.saved = F.i, !.i = g.it]
          IN  Becomes(IF g.ns = 0
                      THEN [f EXCEPT !.attempts = @,
                              !.state = IF F.attempts + 1 < conf.attempts
                                        THEN "ITERATE" ELSE "SWITCH"]
                      ELSE [f EXCEPT !.ns = g.ns, !.j = 0, !.state = "FOREACH_A"])
    /\ Running /\ Stays

ExecForeachNs ==
    /\ At("FOREACH_NS")
    /\ \E seed \in IF F.i.exec = 0 THEN Seeds(F.hints) ELSE {F.i.seed} :
          LET g == GrepNs(F.hints, F.i, seed)
              f == [F EXCEPT !.saved = F.i, !.i = g.it]
          IN  Becomes(IF g.ns = 0
                      THEN [f EXCEPT !.attempts = @ + 1,
                              !.state = IF F.attempts + 1 < conf.attempts
                                        THEN "ITERATE" ELSE "SWITCH"]
                      ELSE [f EXCEPT !.ns = g.ns, !.j = 0, !.state = "FOREACH_A"])
    /\ Running /\ Stays

NsHost == F.hints.ns[F.ns].data
\* The frame is through with its current name server.
Tried(s) == [F EXCEPT !.visited = @ \cup {F.ns}, !.state = s]

ExecResolv0 ==
    /\ At("RESOLV0_NS")
    /\ IF Deepest THEN Becomes(Tried("FOREACH_NS"))
       ELSE Call("RESOLV1_NS", MkQuery(NsHost, "A", FALSE))
    /\ Running /\ Stays

\* A hints packet of dns_hints_query() is copied to a buffer of its own size.
RoomFor(n) == F.hints.from # None /\ Len(F.hints.ar) + n <= GlueRoom

\* Mutant: the iterator is not rewound to the server that now has glue.
Resolv1NoRewind ==
    /\ At("RESOLV1_NS")
    /\ LET up == stack[sp + 1]
           glue == Named(Records(up.answer), up.query.qname, "A")
       IN  \/ /\ glue = <<>> /\ Becomes(Tried("FOREACH_NS")) /\ UNCHANGED <<pc, err>>
           \/ /\ glue # <<>> /\ RoomFor(Len(glue))
              /\ Becomes([F EXCEPT !.hints.ar = @ \o glue,
                                   !.state = "FOREACH_NS"])
              /\ UNCHANGED <<pc, err>>
           \/ /\ glue # <<>> /\ ~RoomFor(Len(glue))
              /\ pc' = "returned" /\ err' = "ENOBUFS" /\ UNCHANGED <<stack, sp>>
    /\ Running /\ UNCHANGED <<smart, log>>

ExecResolv1 ==
    /\ At("RESOLV1_NS")
    /\ LET up == stack[sp + 1]
           glue == Named(Records(up.answer), up.query.qname, "A")
       IN  \/ /\ glue = <<>> /\ Becomes(Tried("FOREACH_NS")) /\ UNCHANGED <<pc, err>>
           \/ /\ glue # <<>> /\ RoomFor(Len(glue))
              /\ Becomes([F EXCEPT !.hints.ar = @ \o glue, !.i = F.saved,
                                   !.state = "FOREACH_NS"])
              /\ UNCHANGED <<pc, err>>
           \/ /\ glue # <<>> /\ ~RoomFor(Len(glue))
              /\ pc' = "returned" /\ err' = "ENOBUFS" /\ UNCHANGED <<stack, sp>>
    /\ Running /\ UNCHANGED <<smart, log>>

\* dns_hints_port()
HintsPort(addr) ==
    LET at == {k \in DOMAIN conf.servers : conf.servers[k].type = "A" /\ conf.servers[k].addr = addr}
    IN  IF at = {} THEN 53 ELSE conf.servers[CHOOSE k \in at : \A m \in at : k <= m].port

InUse == {stack[k].query.qid : k \in {m \in 0..sp : stack[m].query # None}}

ExecForeachA ==
    /\ At("FOREACH_A")
    /\ LET as == Named(Records(F.hints), NsHost, "A")
           addr == as[F.j + 1].data
           remote == [addr |-> addr, port |-> IF sp = 0 THEN HintsPort(addr) ELSE 53]
           fresh == FreshQIds(InUse)
           q == IF F.query.qid # 0 THEN F.query
                ELSE [F.query EXCEPT !.qid = CHOOSE n \in fresh : \A m \in fresh : n <= m]
       IN  \/ /\ F.j < Len(as)
              /\ Becomes([F EXCEPT !.query = q, !.j = @ + 1, !.state = "QUERY_A"])
              /\ so' = Submit(q, remote)
              /\ log' = IF sp = 0 /\ ~conf.recurse
                        THEN [log EXCEPT !.asked = Append(@, addr)] ELSE log
           \/ /\ F.j = Len(as)
              /\ IF F.j = 0 THEN Goto("RESOLV0_NS") ELSE Becomes(Tried("FOREACH_NS"))
              /\ UNCHANGED <<so, log>>
    /\ UNCHANGED <<udp, tcp, wire, faults, now, conf, query, pc, err, smart>>

\* Mutant: a timeout skips the server's other addresses.
QueryANextNs ==
    /\ At("QUERY_A")
    /\ IF SoElapsed >= conf.timeout
       THEN Becomes(Tried("FOREACH_NS")) /\ UNCHANGED pc
       ELSE pc' = "check" /\ UNCHANGED <<stack, sp>>
    /\ Running /\ UNCHANGED <<err, smart, log>>

ExecQueryA ==
    /\ At("QUERY_A")
    /\ IF SoElapsed >= conf.timeout
       THEN Goto("FOREACH_A") /\ UNCHANGED pc
       ELSE pc' = "check" /\ UNCHANGED <<stack, sp>>
    /\ Running /\ UNCHANGED <<err, smart, log>>

\* QUERY_A once dns_so_check() is back with an answer.
ExecAnswer ==
    /\ pc = "checked" /\ err = OK
    /\ LET ans == so.answer
           q == F.query
           f == [F EXCEPT !.answer = ans]
           To(s) == [f EXCEPT !.state = s]
       IN  Becomes(IF Has(ans.an, q.qname, q.qtype) THEN To("FINISH")
                   ELSE IF Has(ans.an, q.qname, "CNAME") THEN To("CNAME0_A")
                   ELSE IF ~conf.recurse THEN To("SWITCH")
                   ELSE IF OfType(ans.ns, "NS") # <<>>
                        THEN [f EXCEPT !.answer = None, !.hints = ans, !.state = "ITERATE"]
                   ELSE IF ans.aa THEN To("FINISH")
                   ELSE To("FOREACH_A"))
    /\ so' = [so EXCEPT !.answer = None]
    /\ log' = [log EXCEPT !.replied = TRUE]
    /\ pc' = "exec"
    /\ UNCHANGED <<udp, tcp, wire, faults, now, conf, query, err, smart>>

\* Any other result of dns_so_check() leaves dns_res_exec().
ExecError ==
    /\ pc = "checked" /\ err # OK
    /\ pc' = "returned"
    /\ Running /\ UNCHANGED <<stack, sp, err, smart, log>>

ExecCname0 ==
    /\ At("CNAME0_A")
    /\ IF Deepest THEN Goto("FINISH")
       ELSE Call("CNAME1_A", MkQuery(Named(F.answer.an, F.query.qname, "CNAME")[1].data,
                                     F.query.qtype, FALSE))
    /\ Running /\ Stays

ExecCname1 ==
    /\ At("CNAME1_A")
    /\ Becomes([F EXCEPT !.answer = Merge(F.answer, stack[sp + 1].answer), !.state = "FINISH"])
    /\ Running /\ Stays

ExecFinish ==
    /\ At("FINISH")
    /\ IF ~conf.smart \/ sp > 0
       THEN Goto("DONE") /\ UNCHANGED smart
       ELSE Goto("SMART0_A") /\ smart' = 0
    /\ Running /\ UNCHANGED <<pc, err, log>>

\* The hosts of NS, MX and SRV answers are looked up one by one; an MX answer
\* without records falls back to the name's own address.
ExecSmart0 ==
    /\ At("SMART0_A")
    /\ LET rrs == IF conf.qtype \in {"NS", "MX", "SRV"} THEN OfType(F.answer.an, conf.qtype)
                  ELSE <<>>
           next == IF smart < Len(rrs) THEN rrs[smart + 1].data ELSE conf.qname
       IN  IF ~Deepest /\ (smart < Len(rrs) \/ (conf.qtype = "MX" /\ smart = 0))
           THEN /\ Call("SMART1_A", MkQuery(next, "A", ~conf.recurse))
                /\ smart' = smart + 1
           ELSE Goto("DONE") /\ UNCHANGED smart
    /\ Running /\ UNCHANGED <<pc, err, log>>

ExecSmart1 ==
    /\ At("SMART1_A")
    /\ Becomes([F EXCEPT !.answer.ar = AddNew(@, OfType(stack[sp + 1].answer.an, "A"), {}),
                         !.state = "SMART0_A"])
    /\ Running /\ Stays

ExecDone ==
    /\ At("DONE")
    /\ IF sp > 0
       THEN sp' = sp - 1 /\ UNCHANGED <<pc, err>>
       ELSE pc' = "returned" /\ err' = OK /\ UNCHANGED sp
    /\ Running /\ UNCHANGED <<stack, smart, log>>

ExecServfail ==
    /\ At("SERVFAIL")
    /\ Becomes([F EXCEPT !.answer = MkPacket(conf, <<>>, <<>>, <<>>), !.state = "DONE"])
    /\ Running /\ Stays

Exec == \/ ExecInit \/ ExecSwitch \/ ExecFile \/ ExecFileFull \/ ExecBind \/ ExecHints \/ ExecIterate
        \/ ExecForeachNs \/ ExecResolv0 \/ ExecResolv1 \/ ExecForeachA \/ ExecQueryA
        \/ ExecAnswer \/ ExecError \/ ExecCname0 \/ ExecCname1 \/ ExecFinish
        \/ ExecSmart0 \/ ExecSmart1 \/ ExecDone \/ ExecServfail

-----------------------------------------------------------------------------
(* The driver: mydns_query() and, for one of its types, mydns_query_all(). *)

\* mydns_parse_answer(): dns_res_fetch() gives the answer out when the first
\* frame is done; the records of the type asked, or the name itself when it is
\* an address ("special").
ParseAnswer(timedOut) ==
    LET p == stack[0].answer
        rrs == OfType(p.an, conf.qtype)
    IN  IF timedOut THEN [kind |-> "timeout", records |-> <<>>]
        ELSE IF stack[0].state # "DONE" THEN [kind |-> "error", records |-> <<>>]
        ELSE IF rrs # <<>> THEN [kind |-> "found", records |-> rrs]
        ELSE IF conf.special THEN [kind |-> "special", records |-> <<>>]
        ELSE [kind |-> "norecord", records |-> <<>>]

\* mydns_close(): dns_res_close() resets the frames and closes every descriptor.
CloseResolver ==
    /\ stack' = [k \in 0..(MaxDepth - 1) |-> NewFrame] /\ sp' = 0
    /\ so' = SoInit(so.type) /\ tcp' = Closed
    /\ udp' = [UdpInit EXCEPT !.open = FALSE]
    /\ pc' = "closed"

\* Mutant: the first wait is 4 s.
PollTimeoutLonger(tries) == IF conf.all THEN 4 ELSE 2 ^ (tries + 1)
\* DNS_GET_POLL_TIMEOUT(tries), DNS_GET_MULTI_POLL_TIMEOUT
PollTimeout(tries) == IF conf.all THEN 2 ELSE 2 ^ tries

Elapsed == now - query.began

\* mydns_is_query_done() asks dns_res_check(), and counts time; what a collector
\* does when the query is done, and when it is not.
IsQueryDone == err # EAGAIN \/ Elapsed >= conf.expire
Answered(timedOut) ==
    /\ query' = [query EXCEPT !.result = ParseAnswer(timedOut)]
    /\ CloseResolver
Yields ==
    /\ LET tries == IF query.tries < MaxTries THEN query.tries + 1 ELSE query.tries
       IN  query' = [query EXCEPT !.tries = tries, !.deadline = now + PollTimeout(tries)]
    /\ pc' = "wait"
    /\ UNCHANGED <<so, udp, tcp, stack, sp>>

\* mydns_query_collect_results() drops the second result, the timeout flag.
Collect ==
    /\ pc = "returned" /\ ~conf.all
    /\ IF IsQueryDone THEN Answered(FALSE) ELSE Yields
    /\ UNCHANGED <<wire, faults, now, err, conf, smart, log>>
\* mydns_query_all_collect_results(), for one of its queries.
CollectAll ==
    /\ pc = "returned" /\ conf.all
    /\ IF IsQueryDone THEN Answered(err = EAGAIN) ELSE Yields
    /\ UNCHANGED <<wire, faults, now, err, conf, smart, log>>

\* The kernel resumes the thread: the descriptor can be read, the timeout has
\* passed, or (query_all) another type's descriptor can be read.
Wake ==
    /\ pc = "wait"
    /\ Readable \/ now >= query.deadline \/ conf.all
    /\ pc' = "exec"
    /\ log' = [log EXCEPT !.data = @ \/ Readable]
    /\ UNCHANGED <<so, udp, tcp, wire, faults, now, err, conf, stack, sp, smart, query>>

Tick ==
    /\ pc = "wait" /\ now < query.deadline
    /\ now' = now + 1
    /\ UNCHANGED <<so, udp, tcp, wire, faults, pc, err, conf, stack, sp, smart, query, log>>

\* The waiting thread is killed; the collector closes the resolver (__gc).
Abandon ==
    /\ pc = "wait"
    /\ query' = [query EXCEPT !.result = [kind |-> "abandoned", records |-> <<>>]]
    /\ CloseResolver
    /\ UNCHANGED <<wire, faults, now, err, conf, smart, log>>

Init ==
    /\ conf \in Confs
    /\ faults = conf.faults
    /\ so = SoInit(conf.type) /\ udp = UdpInit /\ tcp = Closed /\ wire = {}
    /\ now = 0 /\ pc = "exec" /\ err = OK
    /\ stack = [k \in 0..(MaxDepth - 1) |-> NewFrame] /\ sp = 0 /\ smart = 0
    /\ query = [began |-> 0, tries |-> 0, deadline |-> 0, result |-> None]
    /\ log = [asked |-> <<>>, replied |-> FALSE, data |-> FALSE]

Program == (SoCheck /\ UNCHANGED <<conf, stack, sp, smart, query, log>>) \/ Exec \/ Collect \/ CollectAll
Network == Net /\ UNCHANGED <<conf, stack, sp, smart, query, log>>

Next == Program \/ Wake \/ Tick \/ Abandon \/ Network

Spec == Init /\ [][Next]_vars
FairSpec == Spec /\ WF_vars(Program) /\ WF_vars(Wake) /\ SF_vars(Tick)

-----------------------------------------------------------------------------
(* Properties.                                                             *)

States == {"INIT", "SWITCH", "FILE", "BIND", "HINTS", "ITERATE", "FOREACH_NS", "RESOLV0_NS",
           "RESOLV1_NS", "FOREACH_A", "QUERY_A", "CNAME0_A", "CNAME1_A", "FINISH",
           "SMART0_A", "SMART1_A", "DONE", "SERVFAIL"}

\* The variables have their types; in particular R->sp stays inside R->stack.
TypeOK ==
    /\ conf \in Confs /\ faults = conf.faults
    /\ pc \in {"exec", "check", "checked", "returned", "wait", "closed"}
    /\ sp \in 0..(MaxDepth - 1) /\ smart \in Nat /\ now \in Nat
    /\ DOMAIN stack = 0..(MaxDepth - 1)
    /\ \A k \in DOMAIN stack : stack[k].state \in States
    /\ so.old \in Nat /\ so.qout \in 0..QLen /\ so.apos \in 0..2
    /\ query.tries \in 0..MaxTries

\* A packet from the network that a frame keeps, as its answer or as the hints
\* of a referral, answers that frame's own question: a late or repeated reply
\* to another frame's question on the same socket is never taken for it.
AnswerOwn ==
    \A k \in 0..sp : \A p \in {stack[k].answer, stack[k].hints} :
        p # None /\ p.from # None =>
            p.qname = stack[k].query.qname /\ p.qtype = stack[k].query.qtype

\* When a pass over the name servers ends, every one of them was asked at all
\* its addresses in that pass, or has none that could be found, although rewinding
\* to a server that just got its glue changes the order the records are sorted in.
EveryNsTried ==
    [][\A k \in DOMAIN stack :
          stack'[k].attempts > stack[k].attempts => stack[k].visited = NsOf(stack[k].hints)]_vars

\* A stub resolver gives up on the network without any answer only after it
\* asked every server as often as options.attempts says, in the configured
\* order unless "rotate" is set.
GivesUpAfterAll ==
    At("SERVFAIL") /\ sp = 0 /\ ~conf.recurse /\ ~log.replied /\ "b" \in {conf.lookup[k] : k \in DOMAIN conf.lookup} =>
        LET a == SelectSeq(conf.servers, LAMBDA s : s.type = "A")
            n == Len(a)
        IN  /\ Len(log.asked) = n * conf.attempts
            /\ \A k \in DOMAIN a :
                  Cardinality({m \in DOMAIN log.asked : log.asked[m] = a[k].addr}) = conf.attempts
            /\ ~conf.rotate => \A m \in DOMAIN log.asked : log.asked[m] = a[((m - 1) % n) + 1].addr

\* While no server refuses and no connection breaks, a query fails only by
\* running out of time, or of room for glue or for the hosts table's records
\* (ENOBUFS): lost, late, repeated, truncated and stray replies do not end it.
FailsOnlyLate ==
    faults \cap {"icmp", "tcp_refused", "tcp_eof"} = {} /\ query.result # None =>
        (query.result.kind \in {"error", "timeout"} /\ err # "ENOBUFS" => Elapsed >= conf.expire)

\* The latest a query with no wakeup but its own timeouts can end.
SilentEnd(expire) ==
    LET enough == {k \in 0..MaxTries : PollAt(k) >= expire}
    IN  PollAt(CHOOSE k \in enough : \A m \in enough : k <= m)

\* Expiry is only noticed when a poll ends: query() overshoots by less than its
\* last wait, and by no more than the doubling allows when nothing arrives at
\* all; query_all() overshoots by less than two seconds.
EndsInTime ==
    query.result # None =>
        /\ Elapsed < conf.expire + PollTimeout(query.tries)
        /\ ~conf.all /\ ~log.data => Elapsed <= SilentEnd(conf.expire)

\* Every query ends: dns_res_exec() never spins, and a thread that waits for
\* a server that stays silent is given its timeout.
QueryEnds == <>(pc = "closed")
=============================================================================
