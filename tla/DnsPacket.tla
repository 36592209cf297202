----------------------------- MODULE DnsPacket ------------------------------
(***************************************************************************)
(* DNS packets as libdns/dns.c builds, copies, merges and searches them.   *)
(* Packets 1 and 2 are filled record by record, or received from the       *)
(* network and perhaps cut short; packet 3 is the merge of the two.        *)
(***************************************************************************)
EXTENDS DnsRecords

CONSTANTS
    Scenarios,          \* sequence of [size, cat, max, buffers, cut, merge]
    Shuffle16(_, _),    \* dns_k_shuffle16(): a seed's permutation of the offsets
    ShuffleSeeds

VARIABLES
    conf,       \* the scenario, fixed
    pkt,        \* the packets
    log,        \* what was pushed into packets 1 and 2 (history)
    received,   \* which packets came from the network, and whether whole
    stage       \* "fill", or what packets 1 and 2 were then used for

packetVars == <<conf, pkt, log, received, stage>>
Scenario == Scenarios[conf]

-----------------------------------------------------------------------------
(* dns_p_init(), dns_p_make(), dns_p_count(), dns_p_copy(), dns_p_grow().   *)

NoMemo == [s \in Section |-> [base |-> 0, end |-> 0]]
PMake(len) ==
    [data |-> <<>>, size |-> IF len < HeaderLen THEN HeaderLen ELSE len, dict |-> <<>>,
     count |-> [s \in Section |-> 0], memo |-> NoMemo, past |-> <<>>,
     failed |-> FALSE]

PCount(P, sections) == MapThenSumSet(LAMBDA s : P.count[s], sections)

PCopy(P, P0) ==
    LET fits == IF P.size < PEnd(P0) THEN P.size ELSE PEnd(P0)
    IN [P EXCEPT !.data = Octets(P0, HeaderLen, fits - HeaderLen), !.count = P0.count]

Overhead == 84       \* offsetof(struct dns_packet, data) where pointers have 8 octets
MaxSize == 65536
\* The capacity becomes the power of two above the memory now in use.
PGrow(P) ==
    LET used == Overhead + PEnd(P)
        size == CHOOSE n \in {2 ^ k : k \in 4..17} : n > used /\ n \div 2 <= used
    IN IF size > MaxSize THEN Error(P, "ENOBUFS") ELSE Ok([P EXCEPT !.size = size])

-----------------------------------------------------------------------------
(* Records: dns_p_qend(), dns_rr_parse(), dns_rr_len(), dns_rr_skip(),      *)
(* dns_rr_section(), dns_p_study().                                         *)

RECURSIVE QendFrom(_, _, _)
QendFrom(P, qend, count) ==
    LET q == DSkip(P, qend)
    IN IF count = 0 \/ qend >= PEnd(P) THEN qend
       ELSE IF PEnd(P) - q < 4 THEN PEnd(P)
       ELSE QendFrom(P, q + 4, count - 1)
PQend(P) == QendFrom(P, HeaderLen, P.count[QD])

\* A question has no data, and its section is known at once.
RrParse(P, src) ==
    LET p == DSkip(P, src)
        question == src < PQend(P)
        illegal == [ok |-> FALSE]
    IN IF src >= PEnd(P) \/ PEnd(P) - p < 4 THEN illegal
       ELSE IF question THEN [ok |-> TRUE, dn |-> src, type |-> U16At(P, p), p |-> 0, len |-> 0]
       ELSE IF PEnd(P) - p < 10 \/ PEnd(P) - p - 10 < U16At(P, p + 8) THEN illegal
       ELSE [ok |-> TRUE, dn |-> src, type |-> U16At(P, p), p |-> p + 10, len |-> U16At(P, p + 8)]

RrLen(P, src) ==
    LET p == DSkip(P, src)
    IN IF PEnd(P) - p < 4 THEN PEnd(P) - src
       ELSE IF p + 4 <= PQend(P) THEN p + 4 - src
       ELSE IF PEnd(P) - p < 10 \/ PEnd(P) - p - 10 < U16At(P, p + 8) THEN PEnd(P) - src
       ELSE p + 10 + U16At(P, p + 8) - src
RrSkip(P, src) == src + RrLen(P, src)

RECURSIVE OffsetsFrom(_, _)
OffsetsFrom(P, rp) == IF rp >= PEnd(P) THEN <<>> ELSE <<rp>> \o OffsetsFrom(P, RrSkip(P, rp))

\* The section that record number index is in, by the counts of the header.
SectionByCount(P, index) ==
    LET reach == {s \in Section : index < PCount(P, QD..s)}
    IN IF reach = {} THEN 0 ELSE Min(reach)
\* The memos are trusted where they cover the offset.
RrSection(P, src) ==
    LET memo == {s \in Section : P.memo[s].base <= src /\ src < P.memo[s].end}
    IN IF memo # {} THEN Min(memo)
       ELSE SectionByCount(P, Len(SelectSeq(OffsetsFrom(P, HeaderLen), LAMBDA o : o < src)))

RECURSIVE SkipRecords(_, _, _)
SkipRecords(P, rp, count) ==
    IF count = 0 \/ rp >= PEnd(P) THEN rp ELSE SkipRecords(P, RrSkip(P, rp), count - 1)
PStudy(P) ==
    LET end[s \in 0..AR] == IF s = 0 THEN HeaderLen ELSE SkipRecords(P, end[s - 1], P.count[s])
    IN [P EXCEPT !.memo = [s \in Section |-> [base |-> end[s - 1], end |-> end[s]]]]

-----------------------------------------------------------------------------
(* dns_p_push(): the record, then the count and the memos of its section.   *)

\* The section that grew, and the empty ones behind it, end where the packet does.
Memos(P, section) ==
    [s \in Section |->
        CASE s < section -> P.memo[s]
          [] s = section -> [P.memo[s] EXCEPT !.end = PEnd(P)]
          [] s > section -> [base |-> PEnd(P), end |-> PEnd(P)]]
Counted(P, section) == [P EXCEPT !.count[section] = @ + 1, !.memo = Memos(P, section)]
Update(P, section) ==
    IF PCount(P, (section + 1)..AR) > 0 THEN Error(P, "EORDER")
    ELSE Ok(Counted(IF P.memo[section].base = 0 THEN PStudy(P) ELSE P, section))

TTL == <<0, 0, 0, 9>>
\* Behind the owner r come type and class, and unless it is a question the
\* time to live and the data.
AndRecord(r, section, type, any) ==
    LET kind == U16(type) \o U16(1)
        AndData(s) == IF s.error # "none" THEN s ELSE AnyPush(s.P, any, type)
        kinded == Pieces(r, <<kind>>, 0)
    IN IF section = QD THEN kinded ELSE AndData(Pieces(kinded, <<TTL>>, 2))
AndCount(r, section) == IF r.error = "none" THEN Update(r.P, section) ELSE r
\* (`failed` is a history variable.)
Undone(P, r) == IF r.error = "none" THEN r ELSE Error([Back(r.P, P) EXCEPT !.failed = TRUE], r.error)
\* What lies behind the end matters while the dictionary leads there.
Settled(r) ==
    [r EXCEPT !.P.past = IF \A k \in DOMAIN r.P.dict : r.P.dict[k] <= PEnd(r.P) THEN <<>> ELSE @]
PPush(P, section, dn, type, any) ==
    Settled(Undone(P, AndCount(AndRecord(DPush(P, dn), section, type, any), section)))

-----------------------------------------------------------------------------
(* dns_rr_i_match(), dns_rr_i_start(), dns_rr_i_skip(), dns_rr_grep(): the  *)
(* records that match, from the least to the greatest in an order.  Sought  *)
(* are some sections, a type or 0 for any, and an owner: {} is any, {n} is  *)
(* the name n.  The class is always IN, and nothing here seeks by data.     *)

InSection(rr, section) ==
    IF ~rr.ok THEN rr
    ELSE [ok |-> TRUE, dn |-> rr.dn, type |-> rr.type, p |-> rr.p, len |-> rr.len,
          section |-> section]
RrAt(P, o) == InSection(RrParse(P, o), RrSection(P, o))

RrIMatch(P, rr, sections, type, owner) ==
    /\ rr.ok /\ rr.section \in sections /\ type \in {0, rr.type}
    /\ \A n \in owner : DExpand(P, rr.dn).ok /\ Same(DExpand(P, rr.dn).name, n)
Matching(P, sections, type, owner) ==
    LET Records(offsets) == [i \in DOMAIN offsets |-> RrAt(P, offsets[i])]
    IN SelectSeq(Records(OffsetsFrom(P, HeaderLen)), LAMBDA rr : RrIMatch(P, rr, sections, type, owner))

\* dns_rr_i_packet() and dns_rr_i_shuffle(): the order is that of the packet
\* when sort is 0, else the one that sort is the seed of.
RrIPacket(a, b) == a.dn - b.dn
RrIShuffle(seed, a, b) ==
    FirstNonZero(<<a.section - b.section, Shuffle16(a.dn, seed) - Shuffle16(b.dn, seed)>>)
ISort(sort, a, b) == IF sort = 0 THEN RrIPacket(a, b) ELSE RrIShuffle(sort, a, b)

LeastOf(rrs, sort) ==
    FoldLeft(LAMBDA r0, rr : IF ISort(sort, rr, r0) < 0 THEN rr ELSE r0, Head(rrs), Tail(rrs))
\* dns_rr_i_skip() only looks at the records greater than the last one.
RrISkip(rrs, r0, sort) == SelectSeq(rrs, LAMBDA rr : ISort(sort, rr, r0) > 0)
RECURSIVE GrepFrom(_, _, _)
GrepFrom(rrs, rest, sort) ==
    IF rest = <<>> THEN <<>>
    ELSE LET least == LeastOf(rest, sort)
         IN <<least>> \o GrepFrom(rrs, RrISkip(rrs, least, sort), sort)
RrGrep(P, sections, type, owner, sort) ==
    LET All(rrs) == GrepFrom(rrs, rrs, sort) IN All(Matching(P, sections, type, owner))
Foreach(P, sections, type) == RrGrep(P, sections, type, {}, 0)

-----------------------------------------------------------------------------
(* dns_rr_cmp(), dns_rr_copy() and dns_res_merge().                         *)

OrElse(cmp, next) == IF cmp # 0 THEN cmp ELSE next
OwnerCmp(m, n) == IF ~m.ok THEN -1 ELSE IF ~n.ok THEN 1 ELSE NameCmp(m.name, n.name)
ParsedCmp(a, b, type) ==
    IF ~a.ok THEN -1 ELSE IF ~b.ok THEN 1 ELSE AnyCmp(a.data, b.data, type)
RrCmp(r0, P0, r1, P1) ==
    OrElse(FirstNonZero(<<r0.type - r1.type, OwnerCmp(DExpand(P0, r0.dn), DExpand(P1, r1.dn))>>),
           IF QD \in {r0.section, r1.section} THEN r0.section - r1.section
           ELSE ParsedCmp(AnyParse(P0, r0), AnyParse(P1, r1), r0.type))

PushParsed(P, section, rr, dn, any) ==
    IF ~dn.ok \/ (rr.section # QD /\ ~any.ok) THEN Error(P, "EILLEGAL")
    ELSE PPush(P, section, dn.name, rr.type, any.data)
RrCopy(P, rr, section, Q) == PushParsed(P, section, rr, DExpand(Q, rr.dn), AnyParse(Q, rr))

\* dns_rr_exists() over the sections given.
RrExists(rr, Q, P, sections) ==
    \E r \in ToSet(Foreach(P, sections, rr.type)) : RrCmp(rr, Q, r, P) = 0

\* One record is taken over unless an error came before it or it is there.
Then(r, Q, rr) ==
    IF r.error # "none" \/ (rr.section # QD /\ RrExists(rr, Q, r.P, AN..AR)) THEN r
    ELSE RrCopy(r.P, rr, rr.section, Q)
MergeSection(r, Q, s) == FoldLeft(LAMBDA m, rr : Then(m, Q, rr), r, Foreach(Q, {s}, 0))
\* The question is that of the first packet.
MergeQuestion(size, P0) == MergeSection(Ok(PMake(size)), P0, QD)
MergeAnswers(r, P0, P1) ==
    FoldLeft(LAMBDA m, from : MergeSection(m, from[1], from[2]), r,
             <<<<P0, AN>>, <<P1, AN>>, <<P0, NS>>, <<P1, NS>>, <<P0, AR>>, <<P1, AR>>>>)
\* The buffer holds both packets as they are; if that is too little because
\* they share less than they did, a larger one is tried, once.
ResMerge(P0, P1) ==
    LET size == PEnd(P0) + PEnd(P1)
        large == Max({65535, 2 * size})
        Retry(qd, r) == IF qd.error = "none" /\ r.error = "ENOBUFS" /\ size < 65535
                        THEN MergeAnswers(MergeQuestion(large, P0), P0, P1) ELSE r
        First(qd) == Retry(qd, MergeAnswers(qd, P0, P1))
    IN First(MergeQuestion(size, P0))

-----------------------------------------------------------------------------
(* The steps.                                                               *)

\* The names a packet can point to.
Tails(P) == {DExpand(P, c).name : c \in ToSet(Candidates(P))}
\* Some tail of the name, with a later label in place of its first one, is
\* the name at a candidate: MatchTail() may take the one for the other.
Mistakable(P, name) ==
    \E j \in DOMAIN name, k \in DOMAIN name, tail \in Tails(P) :
        /\ k > j /\ ~Same(<<name[j]>>, <<name[k]>>)
        /\ Same(tail, <<name[k]>> \o SubSeq(name, j + 1, Len(name)))
NamesIn(any) == {any[f] : f \in DOMAIN any \cap {"host", "mname", "rname", "target"}}


\* Where a record's names are, and where the names of the packet have labels.
NamePlaces(P, rr) ==
    {rr.dn} \cup (CASE rr.section = QD -> {}
                    [] rr.section # QD /\ rr.type = T_MX -> {rr.p + 2}
                    [] rr.section # QD /\ rr.type \in {T_NS, T_CNAME, T_PTR} -> {rr.p}
                    [] rr.section # QD /\ rr.type = T_SOA -> {rr.p, DSkip(P, rr.p)}
                    [] rr.section # QD /\ rr.type = T_SRV -> {rr.p + 6}
                    [] OTHER -> {})
Labels(P, rrs) == UNION {ToSet(TailsFrom(P, q)) : q \in UNION {NamePlaces(P, rr) : rr \in ToSet(rrs)}}
\* The offset that the name at lp points to, 0 if it is written in full.
RECURSIVE LeadsTo(_, _)
LeadsTo(P, lp) ==
    CASE lp >= PEnd(P) -> 0
      [] lp < PEnd(P) /\ IsPointer(P, lp) -> Target(P, lp)
      [] OTHER -> LeadsTo(P, LSkip(P, lp))
\* The last record points to what is no name: a failed push left its name in the
\* dictionary, and its octets where this record's length was written later.
Astray(P, rrs) ==
    P.failed /\ \E q \in NamePlaces(P, Last(rrs)) : LeadsTo(P, q) \notin {0} \cup Labels(P, rrs)

Entry(P, section, dn, type, any) ==
    [section |-> section, dn |-> dn, type |-> type, data |-> any, end |-> PEnd(P),
     clean |-> /\ \A name \in {dn} \cup NamesIn(any) : ~Mistakable(P, name) /\ TextLen(name) <= MaxName
               /\ ~Astray(P, Foreach(P, Section, 0))]

\* A record of the scenario is pushed; a failed push leaves its names in the
\* dictionary and its octets behind the end.
Push(i, c) ==
    /\ stage = "fill" /\ received[i] # "cut"
    /\ Len(log[i]) < Scenario.max[i]
    /\ \E r \in {PPush(pkt[i], c.section, c.dn, c.type, c.data)} :
       /\ pkt' = [pkt EXCEPT ![i] = r.P]
       /\ log' = IF r.error = "none"
                 THEN [log EXCEPT ![i] = Append(@, Entry(r.P, c.section, c.dn, c.type, c.data))]
                 ELSE log
    /\ UNCHANGED <<conf, received, stage>>

\* The packet goes over the network and is read into a buffer.  The header
\* says how many records it had; the end may be missing.
Receive(i, n, size) ==
    /\ stage = "fill" /\ received[i] = "no" /\ log[i] # <<>>
    /\ n \in 0..Len(pkt[i].data) /\ (n < Len(pkt[i].data) => Scenario.cut)
    /\ pkt' = [pkt EXCEPT ![i] =
                 LET sent == [@ EXCEPT !.data = SubSeq(@, 1, n)]
                 IN PCopy(PMake(IF size < PEnd(sent) THEN PEnd(sent) ELSE size), sent)]
    /\ received' = [received EXCEPT ![i] = IF n < Len(pkt[i].data) THEN "cut" ELSE "whole"]
    /\ UNCHANGED <<conf, log, stage>>

\* Mutant: a record that does not fit is left out.
CopyOnce(P, rr, Q) == Ok(RrCopy(P, rr, AR, Q).P)
\* dns_res_exec(), DNS_R_SMART1_A: the addresses in the answer 2 become
\* additional records of the answer 1, which grows as it has to.
RECURSIVE CopyGrowing(_, _, _)
CopyGrowing(P, rr, Q) ==
    LET Again(g) == IF g.error # "none" THEN g ELSE CopyGrowing(g.P, rr, Q)
        Grown(r) == IF r.error = "ENOBUFS" THEN Again(PGrow(r.P)) ELSE r
    IN Grown(RrCopy(P, rr, AR, Q))
\* Any other error ends the query.
Ends(r, next) == stage' = IF r.error = "none" THEN next ELSE "failed"
AddAddresses ==
    LET Add(r, rr) ==
          IF r.error # "none" \/ RrExists(rr, pkt[2], r.P, {AR}) THEN r ELSE CopyGrowing(r.P, rr, pkt[2])
    IN /\ Scenario.merge /\ stage = "fill" /\ log[2] # <<>> /\ received[1] = "whole"
       /\ \E r \in {FoldLeft(Add, Ok(pkt[1]), Foreach(pkt[2], {AN}, T_A))} :
             pkt' = [pkt EXCEPT ![1] = r.P] /\ Ends(r, "added")
       /\ UNCHANGED <<conf, log, received>>

Merge ==
    /\ Scenario.merge /\ stage = "fill"
    /\ log[1] # <<>> /\ log[2] # <<>>
    /\ \E r \in {ResMerge(pkt[1], pkt[2])} : pkt' = [pkt EXCEPT ![3] = r.P] /\ Ends(r, "merged")
    /\ UNCHANGED <<conf, log, received>>

PacketInit ==
    /\ conf \in DOMAIN Scenarios
    /\ pkt = [i \in 1..3 |-> IF i = 3 THEN PMake(0) ELSE PMake(Scenarios[conf].size[i])]
    /\ log = [i \in 1..2 |-> <<>>]
    /\ received = [i \in 1..2 |-> "no"]
    /\ stage = "fill"

PacketNext ==
    \/ \E i \in 1..2 : \E c \in Scenario.cat[i] : Push(i, c)
    \/ \E i \in 1..2 : \E n \in 0..Len(pkt[i].data) : \E size \in Scenario.buffers : Receive(i, n, size)
    \/ AddAddresses
    \/ Merge

-----------------------------------------------------------------------------
(* Properties.                                                              *)

\* A packet never outgrows its buffer, its dictionary never its array, and
\* the memos and the dictionary hold offsets of the packet's buffer.
PacketsTypeOK ==
    /\ conf \in DOMAIN Scenarios
    /\ stage \in {"fill", "merged", "added", "failed"}
    /\ \A i \in 1..2 : received[i] \in {"no", "whole", "cut"}
    /\ \A i \in 1..3 :
         /\ PEnd(pkt[i]) <= pkt[i].size
         /\ \A k \in DOMAIN pkt[i].data : pkt[i].data[k] \in 0..255
         /\ Len(pkt[i].dict) <= DictSize
         /\ \A k \in DOMAIN pkt[i].dict : pkt[i].dict[k] \in HeaderLen..pkt[i].size
         /\ \A s \in Section : pkt[i].memo[s].base <= pkt[i].memo[s].end

NameFields == {"host", "mname", "rname", "target"}
SameData(a, b) ==
    /\ DOMAIN a = DOMAIN b
    /\ \A f \in DOMAIN a : IF f \in NameFields THEN Same(a[f], b[f]) ELSE a[f] = b[f]
\* What is refused: dns_srv_parse() asks for six free octets at the packet's end,
\* and a union dns_any has room for AnySize octets.
Refused(P, e) ==
    CASE e.type = T_SRV -> Room(P) < 6
      [] e.type \in {T_TXT, T_SPF} -> Len(e.data.text) > AnySize
      [] "rdata" \in DOMAIN e.data -> Len(e.data.rdata) > AnySize
      [] OTHER -> FALSE
ReadsAs(P, rr, e) ==
    /\ rr.section = e.section /\ rr.type = e.type
    /\ e.clean => \E dn \in {DExpand(P, rr.dn)} : dn.ok /\ Same(dn.name, e.dn)
    /\ (e.clean /\ e.section # QD) =>
         \E any \in {AnyParse(P, rr)} :
            IF Refused(P, e) THEN ~any.ok ELSE any.ok /\ SameData(any.data, e.data)

\* The records are there in the order they were pushed, each in its section
\* with its owner and its data, and a search by owner finds them.
RecordsKept ==
    \A i \in 1..2 : \A got \in {Foreach(pkt[i], Section, 0)} :
        LET want == SelectSeq(log[i], LAMBDA e : e.end <= PEnd(pkt[i]))
        IN /\ IF i = 1 /\ stage \in {"added", "failed"} THEN Len(got) >= Len(want) ELSE Len(got) = Len(want)
           /\ \A k \in DOMAIN want :
                /\ ReadsAs(pkt[i], got[k], want[k])
                /\ want[k].clean =>
                     got[k] \in ToSet(RrGrep(pkt[i], Section, want[k].type, {LowerName(want[k].dn)}, 0))

\* The remembered ends of the sections (dns_rr_section() trusts them) agree
\* with the counts in the header, also when records are added to an answer
\* that came from the network without any.
MemoRight ==
    \A i \in 1..3 :
        LET offsets == OffsetsFrom(pkt[i], HeaderLen)
        IN \A k \in DOMAIN offsets : RrSection(pkt[i], offsets[k]) = SectionByCount(pkt[i], k - 1)

\* Iteration in a shuffled order (dns_rr_i_shuffle(), by which nameservers are
\* picked) visits every record once, section by section.
ShuffleOnce ==
    \A i \in 1..2 : \A seed \in ShuffleSeeds :
        \A plain \in {Foreach(pkt[i], Section, 0)}, mixed \in {RrGrep(pkt[i], Section, 0, {}, seed)} :
           /\ Len(mixed) = Len(plain) /\ ToSet(mixed) = ToSet(plain)
           /\ \A k \in 1..(Len(mixed) - 1) : mixed[k].section <= mixed[k + 1].section

Holds(P, sections, e) ==
    \E rr \in ToSet(Foreach(P, sections, e.type)) :
        /\ Same(DExpand(P, rr.dn).name, e.dn)
        /\ \E any \in {AnyParse(P, rr)} :
             /\ any.ok
             /\ SameData(any.data, e.data) \/ (e.type = T_SSHFP /\ any.data.algo = e.data.algo)
Legible(P, e) ==
    e.section # QD /\ e.clean /\ \A name \in {e.dn} \cup NamesIn(e.data) : ~Mistakable(P, name)

\* Whatever was pushed is read back, in order and in a shuffled order, each
\* record in its section with its owner and its data, after failed pushes,
\* compression, copies and a cut: of a packet that lost its end the whole
\* records remain.  A search by owner finds it whatever the case of its letters.
\* Excepted are names of more than 255 octets, data longer than a union dns_any,
\* a name that dns_d_comp() may mistake for another (see Mistakable), and one
\* that it finds among the octets of a failed push (see Astray).
ReadsBack == RecordsKept /\ MemoRight /\ ShuffleOnce

\* dns_res_merge() loses no record of either answer, but for fingerprints,
\* which dns_sshfp_cmp() only tells apart by their algorithm.
MergeKeeps ==
    stage = "merged" =>
        \A i \in 1..2 : \A k \in DOMAIN log[i] :
            LET e == log[i][k]
            IN (Legible(pkt[3], e) /\ e.end <= PEnd(pkt[i]) /\ ~Refused(pkt[3], e))
                 => Holds(pkt[3], AN..AR, e)

\* dns_res_merge() puts nothing twice into its result, but for the types
\* whose comparison finds no two records equal.
MergeOnce ==
    stage = "merged" =>
        \A rrs \in {Foreach(pkt[3], AN..AR, 0)} : \A k, l \in DOMAIN rrs :
             (k < l /\ rrs[k].type \in {T_A, T_AAAA, T_NS, T_CNAME, T_PTR, T_MX, T_SOA, T_SSHFP})
               => RrCmp(rrs[k], pkt[3], rrs[l], pkt[3]) # 0

\* After DNS_R_SMART1_A every address of the second answer is an additional
\* record of the first, however often the buffer had to grow.
AddressesAdded ==
    stage = "added" =>
        \A k \in DOMAIN log[2] :
            LET e == log[2][k]
            IN (e.section = AN /\ e.type = T_A /\ e.end <= PEnd(pkt[2]) /\ Legible(pkt[1], e))
                 => Holds(pkt[1], {AR}, e)

\* Answers are combined without loss: the merge of an alias's answer with that
\* for the name it stands for has the records of both, none twice
\* (dns_res_merge(), DNS_R_CNAME1_A), and a smart query's answer gets all the
\* addresses asked for afterwards (DNS_R_SMART1_A), unless the query fails.
AnswersCombined == MergeKeeps /\ MergeOnce /\ AddressesAdded
=============================================================================
