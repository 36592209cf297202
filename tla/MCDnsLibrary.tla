---------------------------- MODULE MCDnsLibrary ----------------------------
(***************************************************************************)
(* Instances for DnsLibrary.                                               *)
(***************************************************************************)
EXTENDS DnsLibrary, Bitwise

(* Packets: names that share tails, every record type in buffers that are   *)
(* just too small, sections out of order, packets cut at every octet, and   *)
(* pairs of answers to merge.                                               *)

la == <<97>>
lA == <<65>>
lb == <<98>>
lq == <<113, 113>>
lbbb == <<98, 98, 98>>

R(section, dn, type, data) == [section |-> section, dn |-> dn, type |-> type, data |-> data]
Addr(n) == [addr |-> <<10, 0, 0, n>>]
Host(name) == [host |-> name]
Mx(n, name) == [preference |-> n, host |-> name]
Zeros(n) == [i \in 1..n |-> 0]
Soa(m, r, serial) ==
    [mname |-> m, rname |-> r,
     ts |-> <<<<200, 0, 1, serial>>, <<0, 0, 1, 0>>, <<0, 0, 2, 0>>, <<0, 0, 3, 0>>, <<130, 0, 4, 0>>>>]
Srv(n, name) == [priority |-> n, weight |-> 300, port |-> 5060, target |-> name]
Fp(algo, n) == [algo |-> algo, type |-> SHA1, digest |-> [i \in 1..20 |-> n]]
Long(n) == [text |-> [i \in 1..n |-> i % 256]]

ABQ == {<<>>, <<la>>, <<lb, lb>>, <<la, lb>>, <<la, lq>>, <<lA, lb>>, <<lq, la, lb>>}
NameRecords == [size |-> <<90, 0>>,
          cat |-> <<{R(AN, <<la, lq>>, T_NS, Host(n)) : n \in ABQ}
                    \cup {R(AN, n, T_MX, Mx(10, <<lb, lb>>)) : n \in ABQ}, {}>>,
          max |-> <<3, 0>>, buffers |-> {}, cut |-> FALSE, merge |-> FALSE]

AllTypes(s) ==
    {R(s, <<la, lb>>, T_A, Addr(1)), R(s, <<lb>>, T_AAAA, [addr |-> Zeros(15) \o <<1>>]),
     R(s, <<lb>>, T_MX, Mx(258, <<la, lb>>)), R(s, <<lb>>, T_CNAME, Host(<<lA, lb>>)),
     R(s, <<lb>>, T_SOA, Soa(<<la, lb>>, <<lq, lb>>, 7)), R(s, <<lq, lb>>, T_SRV, Srv(1, <<la, lb>>)),
     R(s, <<lb>>, T_PTR, Host(<<>>)), R(s, <<lb>>, T_SSHFP, Fp(1, 5)),
     R(s, <<>>, T_TXT, Long(3)), R(s, <<lb>>, T_SPF, Long(0)), R(s, <<lb>>, 41, [rdata |-> <<1, 2>>])}
TypesIn(size) ==
    [size |-> <<size, 0>>, cat |-> <<AllTypes(AN), {}>>, max |-> <<2, 0>>,
     buffers |-> {}, cut |-> FALSE, merge |-> FALSE]
TypesFit == TypesIn(140)
TypesTight == TypesIn(72)
TypesTighter == TypesIn(50)
\* A name of n octets, and the longest ones and texts that can and cannot be read.
LongName(n) == [i \in 1..4 |-> [k \in 1..(IF i = 4 THEN n - 193 ELSE 63) |-> 97]]
Longest ==
    [size |-> <<1200, 0>>,
     cat |-> <<{R(AN, <<la>>, T_TXT, Long(n)) : n \in {0, 1, 254, 255, 256, 1024, 1025}}
               \cup {R(AN, LongName(n), T_NS, Host(<<la>>)) : n \in {255, 256}}
               \cup {R(AN, <<la>>, 41, [rdata |-> Zeros(n)]) : n \in {1024, 1025}}, {}>>, max |-> <<1, 0>>,
     buffers |-> {1200}, cut |-> FALSE, merge |-> FALSE]
\* Failed pushes whose names end up where the next record has its length.
Failing ==
    [size |-> <<110, 0>>,
     cat |-> <<{R(NS, <<>>, T_A, Addr(1)), R(AN, <<lb>>, T_NS, Host(<<la>>)),
                R(NS, <<lbbb>>, T_MX, Mx(10, <<la>>)), R(NS, <<lb>>, T_NS, Host(<<lq, la>>))}, {}>>,
     max |-> <<3, 0>>, buffers |-> {}, cut |-> FALSE, merge |-> FALSE]
\* An address that the second answer has for a name too long to be read.
Unreadable ==
    [size |-> <<60, 400>>,
     cat |-> <<{R(AN, <<lb>>, T_MX, Mx(1, <<la, lb>>))},
               {R(AN, LongName(256), T_A, Addr(1)), R(AN, <<la, lb>>, T_A, Addr(1))}>>,
     max |-> <<1, 2>>, buffers |-> {60}, cut |-> FALSE, merge |-> TRUE]

Small(s) == {R(s, <<la, lb>>, T_A, Addr(1)), R(s, <<lb>>, T_MX, Mx(1, <<la, lb>>))}
Sections ==
    [size |-> <<120, 0>>,
     cat |-> <<{R(QD, <<lb>>, T_MX, <<>>)} \cup Small(AN) \cup Small(NS) \cup {R(AR, <<lb>>, T_A, Addr(2))}, {}>>,
     max |-> <<3, 0>>, buffers |-> {120}, cut |-> TRUE, merge |-> FALSE]

\* The answer for an alias, and the one for the name it stands for.
Pairs ==
    [size |-> <<150, 150>>,
     cat |-> <<{R(QD, <<lb>>, T_MX, <<>>), R(AN, <<lb>>, T_CNAME, Host(<<la, lb>>)), R(AR, <<la, lb>>, T_A, Addr(1)),
                R(AN, <<lb>>, T_SSHFP, Fp(1, 5))},
               {R(AN, <<la, lb>>, T_MX, Mx(2, <<la, lb>>)), R(AN, <<lA, lb>>, T_A, Addr(1)),
                R(AN, <<la, lb>>, T_A, Addr(2)), R(AR, <<lb>>, T_SSHFP, Fp(1, 6)),
                R(NS, <<>>, T_TXT, Long(1))}>>,
     max |-> <<2, 2>>, buffers |-> {}, cut |-> FALSE, merge |-> TRUE]
\* The first answer has no room left for the addresses of the second.
Full ==
    [size |-> <<100, 100>>,
     cat |-> <<{R(AN, <<lb>>, T_MX, Mx(1, <<la, lb>>)), R(AR, <<la, lb>>, T_A, Addr(1))},
               {R(AN, <<la, lb>>, T_A, Addr(n)) : n \in {1, 2}} \cup {R(AN, <<lq, la>>, T_A, Addr(3))}>>,
     max |-> <<2, 3>>, buffers |-> {0, 45}, cut |-> FALSE, merge |-> TRUE]

MCScenarios == <<NameRecords, TypesFit, TypesTight, TypesTighter, Longest, Failing, Sections, Pairs, Full, Unreadable>>

MCShuffle(n, seed) == (7919 * (2 * seed + 1) * n) % 65536
MCShuffleSeeds == {1, 4}

(* Identifiers: ranges that fill their block and ranges that do not, and    *)
(* six round functions.                                                     *)

MCRanges == {<<1, 3>>, <<1, 7>>, <<0, 4>>, <<5, 12>>, <<1, 15>>}
MCKeys == 1..6
MCF(key, k, x) == (key * 37 + k * (key + 5) + x * x * (k + key) + x * 3) % 64
MCXor(x, y) == x ^^ y
MCSeeds == {<<1,2,3,0>>, <<3,3,1,2>>}
MCBoxes == {[x \in 0..3 |-> p[x + 1]] : p \in {<<2,0,3,1>>, <<1,3,0,2>>}}

Ns(addr, port) == [ok |-> TRUE, af |-> AF_INET, addr |-> addr, port |-> port]
Ns6(addr) == [ok |-> TRUE, af |-> AF_INET6, addr |-> addr, port |-> 0]
BadNs == [ok |-> FALSE, af |-> AF_INET, addr |-> "bad", port |-> 0]
Line(key, args) == [key |-> key, args |-> args, cut |-> Len(args)]
Opt(o, n) == [opt |-> o, n |-> n]
MCHostnames == {<<"h">>, <<"h", "ex">>}
HLine(addr, args) == [key |-> addr, args |-> args, cut |-> Len(args)]
MCFiles ==
    <<[conf |-> <<Line("nameserver", <<Ns("n1", 0)>>), Line("nameserver", <<Ns("n2", 65589)>>),
                  Line("nameserver", <<Ns6("n3")>>), Line("nameserver", <<BadNs>>),
                  Line("nameserver", <<Ns("n1", 65536)>>), Line("options", <<Opt("rotate", 0)>>)>>,
       hosts |-> {}, max |-> 4],
      [conf |-> <<Line("search", <<<<"a">>, <<"b">>, <<"c">>, <<"d">>, <<"e">>, <<"f">>>>),
                  Line("domain", <<<<"b">>>>), Line("lookup", <<"bind">>),
                  Line("lookup", <<"file", "no", "cache", "bind">>),
                  Line("options", <<Opt("smart", 0), Opt("ndots", 2), Opt("tcp:", 2), Opt("no", 0), Opt("timeout", 3)>>),
                  [Line("options", <<Opt("tcp", 0), Opt("ndots", 0), Opt("tcp:", 0)>>) EXCEPT !.cut = 2],
                  Line("interface", <<Ns("n4", 5)>>), Line("interface", <<BadNs>>),
                  [Line("lookup", <<"file">>) EXCEPT !.cut = 0]>>,
       hosts |-> {}, max |-> 3],
      [conf |-> <<>>,
       hosts |-> {HLine(Ns("n1", 0), <<"a", "b">>), HLine(Ns("n2", 0), <<"b", "a", "a">>),
                  HLine(Ns6("n3"), <<"a">>), HLine(BadNs, <<"a">>),
                  [HLine(Ns("n1", 0), <<"c", "a">>) EXCEPT !.cut = 1]},
       max |-> 4]>>

(* Answers: address queries of every family, and MX records of four         *)
(* preferences.                                                             *)

Rr(section, type, data) == [section |-> section, type |-> type, data |-> data, bad |-> FALSE]
In(af, n) == [af |-> af, addr |-> n]
MxData(p, h) == [preference |-> p, host |-> h]
MCCalls == {[family |-> f, host |-> h, max |-> 2] : f \in {"AF_INET", "AF_INET6", "AF_UNSPEC"}, h \in {"*", "4.4.4.4", "::6", "name"}}
              \cup {[family |-> "mx", host |-> "name", max |-> 4]}
AddrRRs == {Rr("AN", "a", In(4, "x")), Rr("AR", "a", In(4, "y")), Rr("AN", "aaaa", In(6, "z")),
          [Rr("AN", "a", In(4, "w")) EXCEPT !.bad = TRUE]}
MxRRs == {Rr("AN", "mx", MxData(p, h)) : p \in {0, 5, 7, 10}, h \in {"h1", "h2"}}
MCRRs(c) == IF c.family = "mx" THEN MxRRs ELSE AddrRRs
=============================================================================
