----------------------------- MODULE DnsRecords -----------------------------
(***************************************************************************)
(* The data of a resource record (libdns/dns.c): for each type how it is   *)
(* written behind its two-octet length, read from an answer and compared.  *)
(* A 32-bit number is its four octets.                                     *)
(***************************************************************************)
EXTENDS DnsWire

T_A == 1
T_NS == 2
T_CNAME == 5
T_SOA == 6
T_PTR == 12
T_MX == 15
T_TXT == 16
T_AAAA == 28
T_SRV == 33
T_SSHFP == 44
T_SPF == 99
SHA1 == 1            \* DNS_SSHFP_SHA1

Parsed(data) == [ok |-> TRUE, data |-> data]
Illegal == [ok |-> FALSE, data |-> <<>>]

\* The length before the data is known when the data is written.
WithLength(P, at) ==
    LET len == U16(PEnd(P) - at - 2) IN
    [P EXCEPT !.data[at - HeaderLen + 1] = len[1], !.data[at - HeaderLen + 2] = len[2]]
\* The end of every push that may fail half way.
Finish(r, P) == IF r.error = "none" THEN Ok(WithLength(r.P, PEnd(P))) ELSE Error(Back(r.P, P), r.error)

-----------------------------------------------------------------------------
(* dns_a_parse(), dns_a_push(), dns_aaaa_parse(), dns_aaaa_push().          *)

AParse(P, rr) == IF rr.len # 4 THEN Illegal ELSE Parsed([addr |-> Octets(P, rr.p, 4)])
APush(P, a) == IF Room(P) < 6 THEN Error(P, "ENOBUFS") ELSE Ok(Emit(P, U16(4) \o a.addr))

AaaaParse(P, rr) == IF rr.len # 16 THEN Illegal ELSE Parsed([addr |-> Octets(P, rr.p, 16)])
AaaaPush(P, a) == IF Room(P) < 18 THEN Error(P, "ENOBUFS") ELSE Ok(Emit(P, U16(16) \o a.addr))

-----------------------------------------------------------------------------
(* The types that hold a name: dns_mx_*(), dns_ns_*() (also CNAME and PTR), *)
(* dns_soa_*() and dns_srv_*().                                             *)

MxParse(P, rr) ==
    LET host == DExpand(P, rr.p + 2)
    IN IF rr.len < 3 \/ ~host.ok THEN Illegal
       ELSE Parsed([preference |-> U16At(P, rr.p), host |-> host.name])
MxPush(P, mx) ==
    IF Room(P) < 5 THEN Error(P, "ENOBUFS")
    ELSE Finish(DPush(Emit(Skip2(P), U16(mx.preference)), mx.host), P)

NsParse(P, rr) ==
    LET host == DExpand(P, rr.p)
    IN IF host.ok THEN Parsed([host |-> host.name]) ELSE Illegal
NsPush(P, ns) ==
    IF Room(P) < 3 THEN Error(P, "ENOBUFS") ELSE Finish(DPush(Skip2(P), ns.host), P)

\* Five 32-bit numbers follow the two names; the middle ones lose their top bit.
SoaParse(P, rr) ==
    LET mname == DExpand(P, rr.p)
        rp == DSkip(P, rr.p)
        rname == DExpand(P, rp)
        ts == DSkip(P, rp)
    IN IF \/ rr.p >= PEnd(P) \/ ~mname.ok \/ rp >= PEnd(P) \/ ~rname.ok
          \/ ts >= PEnd(P) \/ PEnd(P) - ts < 20
       THEN Illegal
       ELSE Parsed([mname |-> mname.name, rname |-> rname.name,
                    ts |-> [i \in 1..5 |-> Octets(P, ts + 4 * (i - 1), 4)]])
Masked(ts, i) == IF i \in 2..4 THEN [ts[i] EXCEPT ![1] = @ % 128] ELSE ts[i]
AndName(r, name) == IF r.error = "none" THEN DPush(r.P, name) ELSE r
SoaPush(P, soa) ==
    IF Room(P) <= 2 THEN Error(P, "ENOBUFS")
    ELSE Finish(Pieces(AndName(DPush(Skip2(P), soa.mname), soa.rname),
                       [i \in 1..5 |-> Masked(soa.ts, i)], 1), P)

\* The check before the numbers are read looks at the room left in the packet.
SrvParse(P, rr) ==
    LET target == DExpand(P, rr.p + 6)
    IN IF Room(P) < 6 \/ ~target.ok THEN Illegal
       ELSE Parsed([priority |-> U16At(P, rr.p), weight |-> U16At(P, rr.p + 2),
                    port |-> U16At(P, rr.p + 4), target |-> target.name])
\* The target is compressed but not remembered.
SrvPush(P, srv) ==
    LET numbers == U16(srv.priority) \o U16(srv.weight) \o U16(srv.port)
    IN IF Room(P) < 8 THEN Error(P, "ENOBUFS")
       ELSE Finish(NamePush(Emit(Skip2(P), numbers), srv.target), P)

-----------------------------------------------------------------------------
(* dns_sshfp_*(), dns_txt_*() (also SPF), and the types with no codec.      *)

SshfpParse(P, rr) ==
    LET type == Octet(P, rr.p + 1)
    IN IF rr.len < 2 \/ (type = SHA1 /\ rr.len - 2 < 20) THEN Illegal
       ELSE Parsed([algo |-> Octet(P, rr.p), type |-> type,
                    digest |-> IF type = SHA1 THEN Octets(P, rr.p + 2, 20) ELSE <<>>])
SshfpPush(P, fp) ==
    LET kind == Emit(Skip2(P), <<fp.algo, fp.type>>)
    IN IF Room(P) < 4 THEN Error(P, "ENOBUFS")
       ELSE IF fp.type # SHA1 THEN Error(kind, "EILLEGAL")
       ELSE Finish(Pieces(Ok(kind), <<fp.digest>>, 0), P)

\* A text is cut into strings of at most 255 octets, each behind its length.
TxtChunk == 255
Chunks(text) ==
    [i \in 1..((Len(text) + TxtChunk - 1) \div TxtChunk) |->
        SubSeq(text, TxtChunk * (i - 1) + 1,
               IF TxtChunk * i < Len(text) THEN TxtChunk * i ELSE Len(text))]
TxtPush(P, txt) ==
    LET strings == FlattenSeq([i \in DOMAIN Chunks(txt.text) |->
                                 <<<<Len(Chunks(txt.text)[i])>>, Chunks(txt.text)[i]>>])
        len == Len(txt.text) + (Len(txt.text) + 254) \div 255
    IN Pieces(Ok(P), <<U16(len)>> \o strings, 0)
AnySize == 1024      \* DNS_TXT_MINDATA: what a union dns_any has room for
RECURSIVE TxtFrom(_, _, _, _)
TxtFrom(P, p, end, text) ==
    IF p >= end THEN Parsed([text |-> text])
    ELSE LET n == Octet(P, p)
         IN IF end - (p + 1) < n \/ AnySize - Len(text) < n THEN Illegal
            ELSE TxtFrom(P, p + 1 + n, end, text \o Octets(P, p + 1, n))
TxtParse(P, rr) == TxtFrom(P, rr.p, rr.p + rr.len, <<>>)

\* dns_any_parse() and dns_any_push(): the dns_rrtypes[] table.
AnyParse(P, rr) ==
    CASE rr.type = T_A -> AParse(P, rr)
      [] rr.type = T_AAAA -> AaaaParse(P, rr)
      [] rr.type = T_MX -> MxParse(P, rr)
      [] rr.type \in {T_NS, T_CNAME, T_PTR} -> NsParse(P, rr)
      [] rr.type = T_SOA -> SoaParse(P, rr)
      [] rr.type = T_SRV -> SrvParse(P, rr)
      [] rr.type \in {T_TXT, T_SPF} -> TxtParse(P, rr)
      [] rr.type = T_SSHFP -> SshfpParse(P, rr)
      [] OTHER -> IF rr.len > AnySize THEN Illegal ELSE Parsed([rdata |-> Octets(P, rr.p, rr.len)])
AnyPush(P, any, type) ==
    CASE type = T_A -> APush(P, any)
      [] type = T_AAAA -> AaaaPush(P, any)
      [] type = T_MX -> MxPush(P, any)
      [] type \in {T_NS, T_CNAME, T_PTR} -> NsPush(P, any)
      [] type = T_SOA -> SoaPush(P, any)
      [] type = T_SRV -> SrvPush(P, any)
      [] type \in {T_TXT, T_SPF} -> TxtPush(P, any)
      [] type = T_SSHFP -> SshfpPush(P, any)
      [] OTHER -> IF Room(P) < Len(any.rdata) + 2 THEN Error(P, "ENOBUFS")
                  ELSE Ok(Emit(P, U16(Len(any.rdata)) \o any.rdata))

-----------------------------------------------------------------------------
(* Comparisons: negative, zero or positive.                                 *)

FirstNonZero(cmps) ==
    LET differ == {i \in DOMAIN cmps : cmps[i] # 0} IN IF differ = {} THEN 0 ELSE cmps[Min(differ)]
\* memcmp() and strcmp()
LexCmp(s, t) ==
    LET common == IF Len(s) < Len(t) THEN Len(s) ELSE Len(t)
    IN FirstNonZero([i \in 1..common |-> s[i] - t[i]] \o <<Len(s) - Len(t)>>)
\* strcasecmp() of two names with their dots; the root is ".".
Text(name) == IF name = <<>> THEN <<46>>
              ELSE FlattenSeq([i \in DOMAIN name |-> Append(LowerName(name)[i], 46)])
NameCmp(m, n) == LexCmp(Text(m), Text(n))

ACmp(a, b) == LexCmp(a.addr, b.addr)
AaaaCmp(a, b) == LexCmp(a.addr, b.addr)
NsCmp(a, b) == NameCmp(a.host, b.host)
MxCmp(a, b) == FirstNonZero(<<a.preference - b.preference, NameCmp(a.host, b.host)>>)
\* The larger number comes first.
SoaCmp(a, b) ==
    FirstNonZero(<<NameCmp(a.mname, b.mname), NameCmp(a.rname, b.rname)>>
                 \o [i \in 1..5 |-> LexCmp(b.ts[i], a.ts[i])])
SrvCmp(a, b) ==
    FirstNonZero(<<a.priority - b.priority, a.weight - b.weight, a.port - b.port,
                   NameCmp(a.target, b.target)>>)
\* The second test reads cmp - a->type - b->type, so it holds for every two
\* records whose types are not both 0, and cmp is still 0 when it does.
SshfpCmp(a, b) ==
    IF a.algo # b.algo THEN a.algo - b.algo
    ELSE IF 0 - a.type - b.type # 0 THEN 0
    ELSE IF a.type = SHA1 THEN LexCmp(a.digest, b.digest) ELSE 0
\* dns_txt_cmp() finds no two texts equal.
TxtCmp(a, b) == -1

\* dns_any_cmp()
AnyCmp(a, b, type) ==
    CASE type = T_A -> ACmp(a, b)
      [] type = T_AAAA -> AaaaCmp(a, b)
      [] type = T_MX -> MxCmp(a, b)
      [] type \in {T_NS, T_CNAME, T_PTR} -> NsCmp(a, b)
      [] type = T_SOA -> SoaCmp(a, b)
      [] type = T_SRV -> SrvCmp(a, b)
      [] type \in {T_TXT, T_SPF} -> TxtCmp(a, b)
      [] type = T_SSHFP -> SshfpCmp(a, b)
      [] OTHER -> -1
=============================================================================
