----------------------------- MODULE NameTables -----------------------------
(***************************************************************************)
(* The tables a resolver answers from before it asks anyone: the hosts     *)
(* file, resolv.conf and the hints made of it (libdns/dns.c).  Files are   *)
(* read line by line.  A line is its words: [key, args, cut], of which the *)
(* ones after the first cut arguments are in a comment.                    *)
(***************************************************************************)
EXTENDS Permutor, FiniteSets, SequencesExt

CONSTANTS
    Hostnames,      \* what gethostname() may return, as sequences of labels
    Files,          \* a sequence of [conf, hosts, max]: the lines that may be met in
                    \* resolv.conf, as [key, args, cut], and in the hosts file, as
                    \* [key: the address, args: the names, cut], and how many are read
    MaxFiles,       \* files given to resolv_conf.new() and hosts.new()
    HostsRoom,      \* records of an answer that fit dns_hosts_query()'s 512 octets
    MaxHints,       \* lengthof(dns_hints_soa.addrs), 16 in the code
    Seeds           \* seeds of dns_k_shuffle16(): a half for each of its rounds

VARIABLES
    files,      \* which of Files, fixed
    resconf,    \* struct dns_resolv_conf
    sa_count,   \* nameservers read from the present file
    hosts,      \* the list of struct dns_hosts_entry
    read        \* the lines read so far, each with the number of its file (history)

tablesVars == <<files, resconf, sa_count, hosts, read>>
AF_INET == 4
AF_INET6 == 6
NoServer == [af |-> 0, addr |-> "none", port |-> 0]     \* AF_UNSPEC
MinOf(a, b) == IF a < b THEN a ELSE b

-----------------------------------------------------------------------------
(* resolv.conf.  A name is the sequence of its labels, the root is <<>>.    *)

\* dns_resconf_open(): anchored and without its first label, the name of the
\* host is the domain to search; of a name with one label remains the root, not
\* the empty string that the comment behind it expects.
ResconfOpen(hostname) ==
    [nameserver |-> <<[af |-> AF_INET, addr |-> "any", port |-> 53], NoServer, NoServer>>,
     search |-> <<Tail(hostname)>>,
     lookup |-> <<"bind", "file", "">>,
     options |-> [edns0 |-> FALSE, ndots |-> 1, timeout |-> 5, attempts |-> 2, rotate |-> FALSE,
                  recurse |-> FALSE, smart |-> FALSE, tcp |-> "enable"],
     iface |-> [af |-> AF_INET, addr |-> "any", port |-> 0]]

\* dns_resconf_pton(): the port is an unsigned short.
ResconfPton(slot, w) ==
    LET port == w.port % 2 ^ 16
    IN IF ~w.ok THEN slot ELSE [af |-> w.af, addr |-> w.addr, port |-> IF port = 0 THEN 53 ELSE port]

\* dns_resconf_setiface()
SetIface(iface, w) == IF ~w.ok THEN iface ELSE [af |-> w.af, addr |-> w.addr, port |-> w.port % 2 ^ 16]

MaxWords == 6
\* The words after the keyword: six words are kept of a line.
Args(line) == SubSeq(line.args, 1, MinOf(MinOf(line.cut, MaxWords - 1), Len(line.args)))

\* The search list is emptied, then filled.
SearchList(old, args) == SubSeq(args, 1, MinOf(4, Len(args)))

\* The sources named are written over the first places of lookup[].
LookupList(old, args) ==
    LET known == SelectSeq(args, LAMBDA w : w \in {"file", "bind", "cache"})
    IN [j \in 1..3 |-> IF j <= Len(known) THEN known[j] ELSE old[j]]

TcpOf(n) == CASE n = 0 -> "disable" [] n = 1 -> "only" [] n = 2 -> "enable"
\* One word of an options line: [opt, n].
SetOption(o, w) ==
    CASE w.opt \in {"edns0", "rotate", "recurse", "smart"} -> [o EXCEPT ![w.opt] = TRUE]
      [] w.opt \in {"ndots", "timeout", "attempts"} -> [o EXCEPT ![w.opt] = w.n]
      [] w.opt = "tcp" -> [o EXCEPT !.tcp = "only"]
      [] w.opt = "tcp:" /\ w.n \in 0..2 -> [o EXCEPT !.tcp = TcpOf(w.n)]
      [] OTHER -> o

\* One turn of the loop of dns_resconf_loadfile().
ResconfLine(line) ==
    LET args == Args(line)
        slot == sa_count + 1
    IN /\ CASE args = <<>> -> UNCHANGED <<resconf, sa_count>>
            [] args # <<>> /\ line.key = "nameserver" ->
                 IF sa_count >= 3 \/ ~args[1].ok THEN UNCHANGED <<resconf, sa_count>>
                 ELSE /\ resconf' = [resconf EXCEPT !.nameserver[slot] = ResconfPton(@, args[1])]
                      /\ sa_count' = slot
            [] args # <<>> /\ line.key \in {"domain", "search"} ->
                 /\ resconf' = [resconf EXCEPT !.search = SearchList(@, args)]
                 /\ UNCHANGED sa_count
            [] args # <<>> /\ line.key = "lookup" ->
                 /\ resconf' = [resconf EXCEPT !.lookup = LookupList(@, args)]
                 /\ UNCHANGED sa_count
            [] args # <<>> /\ line.key = "options" ->
                 /\ resconf' = [resconf EXCEPT !.options = FoldLeft(SetOption, @, args)]
                 /\ UNCHANGED sa_count
            [] args # <<>> /\ line.key = "interface" ->
                 /\ resconf' = [resconf EXCEPT !.iface = SetIface(@, args[1])]
                 /\ UNCHANGED sa_count
       /\ UNCHANGED hosts

-----------------------------------------------------------------------------
(* The hosts file.                                                          *)

Names(line) == SubSeq(line.args, 1, MinOf(line.cut, Len(line.args)))
\* dns_hosts_insert(): the name a PTR question for the address asks for.
Arpa(af, addr) == [af |-> af, arpa |-> addr]

\* ensure_arpa_string() (dns/dns.c): the name a PTR query asks for, when it
\* was given an address and when it was given that name.
EnsureArpa(data) == IF data.kind = "address" THEN Arpa(data.af, data.addr) ELSE data.name

\* Mutant: every name but the last is canonical.
EntriesAlias(line) ==
    [k \in DOMAIN Names(line) |->
        [host |-> Names(line)[k], arpa |-> Arpa(line.key.af, line.key.addr), af |-> line.key.af,
         addr |-> line.key.addr, alias |-> k = Len(Names(line))]]
\* One turn of the outer loop of dns_hosts_loadfile(): the first name is the
\* canonical one; a line that begins with no address is skipped.
Entries(line) ==
    [k \in DOMAIN Names(line) |->
        [host |-> Names(line)[k], arpa |-> Arpa(line.key.af, line.key.addr), af |-> line.key.af,
         addr |-> line.key.addr, alias |-> k > 1]]
HostsLine(line) ==
    /\ hosts' = IF line.key.ok THEN hosts \o Entries(line) ELSE hosts
    /\ UNCHANGED <<resconf, sa_count>>

\* dns_hosts_query(): an answer for which the packet has no room is an error.
HostsQuery(type, name) ==
    LET matches(e) == IF type = "PTR" THEN ~e.alias /\ e.arpa = name
                      ELSE e.af = (IF type = "A" THEN AF_INET ELSE AF_INET6) /\ e.host = name
        found == SelectSeq(hosts, matches)
    IN IF Len(found) > HostsRoom THEN [error |-> "ENOBUFS", records |-> <<>>]
       ELSE [error |-> "none",
             records |-> [k \in DOMAIN found |-> IF type = "PTR" THEN found[k].host ELSE found[k].addr]]

-----------------------------------------------------------------------------
(* Hints: the nameservers of resolv.conf, listed under the root zone.       *)

\* dns_hints_insert(): a full list has its first place overwritten.
HintsInsert(soa, sa, priority) ==
    LET hint == [ss |-> sa, priority |-> priority]
    IN IF Len(soa) < MaxHints THEN Append(soa, hint) ELSE [soa EXCEPT ![1] = hint]

\* dns_hints_insert_resconf(), which stops at the first unused slot.
InsertResconf(rc) ==
    LET used == SelectSeq(rc.nameserver, LAMBDA sa : sa.af # 0)
        soa[n \in 0..Len(used)] ==
          IF n = 0 THEN <<>> ELSE HintsInsert(soa[n - 1], used[n], IF rc.options.rotate THEN 1 ELSE n)
    IN soa[Len(used)]

\* dns_hints_i_cmp(), for the places a and b, counted from 0.
HintsBefore(soa, seed, box, a, b) ==
    LET pa == soa[a + 1].priority
        pb == soa[b + 1].priority
    IN pa < pb \/ (pa = pb /\ Shuffled(a, seed, box) < Shuffled(b, seed, box))
LeastHint(soa, seed, box, places) ==
    CHOOSE p \in places : \A q \in places \ {p} : HintsBefore(soa, seed, box, p, q)
\* dns_hints_i_start() and dns_hints_i_skip()
HintsIStart(soa, seed, box) ==
    IF soa = <<>> THEN 0 ELSE LeastHint(soa, seed, box, 0..(Len(soa) - 1))
HintsISkip(soa, seed, box, p0) ==
    LET after == {p \in 0..(Len(soa) - 1) : HintsBefore(soa, seed, box, p0, p)}
    IN IF after = {} THEN Len(soa) ELSE LeastHint(soa, seed, box, after)
\* dns_hints_grep() until it has no more: dns_hints_query() writes the address
\* of each hint, but no port, into its packet.
HintsQuery(soa, seed, box) ==
    LET next[n \in 0..Len(soa)] ==
          IF n = 0 THEN HintsIStart(soa, seed, box)
          ELSE LET p0 == next[n - 1] IN IF p0 < Len(soa) THEN HintsISkip(soa, seed, box, p0) ELSE p0
        places == SelectSeq([n \in 1..(Len(soa) + 1) |-> next[n - 1]], LAMBDA p : p < Len(soa))
    IN [n \in DOMAIN places |-> [af |-> soa[places[n] + 1].ss.af, addr |-> soa[places[n] + 1].ss.addr]]

\* dns_hints_port(): the port of the first hint with that address.
HintsPort(soa, a) ==
    LET same == SelectSeq(soa, LAMBDA h : h.ss.af = a.af /\ h.ss.addr = a.addr)
    IN IF same = <<>> THEN 53 ELSE same[1].ss.port

-----------------------------------------------------------------------------
File == IF read = <<>> THEN 1 ELSE Last(read).file

ReadLine(table, line, file) ==
    /\ Len(read) < Files[files].max
    /\ IF table = "conf" THEN ResconfLine(line) ELSE HostsLine(line)
    /\ read' = Append(read, [table |-> table, line |-> line, file |-> file])
    /\ UNCHANGED files
\* dns_resconf_loadpath() of another path of the list (resolv_conf.new()).
NextFile ==
    /\ read # <<>> /\ File < MaxFiles
    /\ sa_count' = 0
    /\ read' = Append(read, [Last(read) EXCEPT !.table = "open", !.file = @ + 1])
    /\ UNCHANGED <<files, resconf, hosts>>

TablesInit ==
    /\ files \in DOMAIN Files
    /\ resconf \in {ResconfOpen(h) : h \in Hostnames}
    /\ sa_count = 0 /\ hosts = <<>> /\ read = <<>>
TablesNext ==
    \/ \E k \in DOMAIN Files[files].conf : ReadLine("conf", Files[files].conf[k], File)
    \/ \E line \in Files[files].hosts : ReadLine("hosts", line, File)
    \/ NextFile

-----------------------------------------------------------------------------
(* Properties.                                                              *)

TablesTypeOK ==
    /\ files \in DOMAIN Files
    /\ sa_count \in 0..3 /\ Len(resconf.nameserver) = 3 /\ Len(resconf.search) \in 0..4
    /\ \A k \in 1..3 : resconf.nameserver[k].port \in 0..65535 /\ resconf.nameserver[k].af \in {0, 4, 6}
    /\ \A k \in 1..3 : resconf.lookup[k] \in {"bind", "file", "cache", ""}
    /\ \A k \in DOMAIN hosts : hosts[k].af \in {AF_INET, AF_INET6} /\ hosts[k].alias \in BOOLEAN

\* The lines with a keyword that were read from a file, or from all of them.
LinesOf(key) ==
    LET these == SelectSeq(read, LAMBDA r : r.table = "conf" /\ r.line.key \in key /\ Args(r.line) # <<>>)
    IN [k \in DOMAIN these |-> [file |-> these[k].file, args |-> Args(these[k].line)]]

\* Nameserver k is the k-th usable one of the last file that has so many, and
\* the default, this host, only when no file has any: a file read later
\* replaces the servers of an earlier one place by place, and no line with a
\* bad address or beyond the third takes a place (dns_resconf_loadfile()).
ServersLayered ==
    LET good == SelectSeq(LinesOf({"nameserver"}), LAMBDA l : l.args[1].ok)
        of(f) == SelectSeq(good, LAMBDA l : l.file = f)
    IN \A k \in 1..3 :
        LET long == {f \in 1..File : Len(of(f)) >= k}
            w == of(CHOOSE f \in long : \A g \in long : g <= f)[k].args[1]
        IN IF long = {}
           THEN resconf.nameserver[k].addr = (IF k = 1 THEN "any" ELSE "none")
           ELSE /\ resconf.nameserver[k].addr = w.addr /\ resconf.nameserver[k].af = w.af
                /\ resconf.nameserver[k].port = (IF w.port \in 1..65535 THEN w.port
                                                 ELSE IF w.port % 65536 = 0 THEN 53 ELSE w.port % 65536)

\* The search list comes from one line, the last with "search" or "domain",
\* never from two of them.  Without such a line it is the domain of the host,
\* which is the root for a host name without a dot; the comment at the end of
\* dns_resconf_open() expects no domain there.
SearchFromOneLine ==
    LET lines == LinesOf({"search", "domain"})
    IN IF lines = <<>> THEN \E h \in Hostnames : resconf.search = <<Tail(h)>>
       ELSE \A j \in 1..4 : IF j <= Len(Last(lines).args) THEN resconf.search[j] = Last(lines).args[j]
                            ELSE j > Len(resconf.search)

\* The sources named by the last "lookup" line that names any come first, in
\* its order; what it does not write over stays behind them, so that "lookup
\* bind" after the default still looks into the hosts file.
LookupNamed ==
    LET sources(l) == SelectSeq(l.args, LAMBDA w : w \in {"file", "bind", "cache"})
        lines == LinesOf({"lookup"})
    IN \A j \in 1..3 :
         LET long == SelectSeq(lines, LAMBDA l : Len(sources(l)) >= j)
         IN resconf.lookup[j] = IF long = <<>> THEN <<"bind", "file", "">>[j] ELSE sources(Last(long))[j]

\* A flag is set once a word names it; a number, the use of TCP and the interface
\* are those of the last word that gives a good value, in whichever file.
OptionsLast ==
    LET lines == LinesOf({"options"})
        words == FlattenSeq([k \in DOMAIN lines |-> lines[k].args])
        naming(o) == SelectSeq(words, LAMBDA w : w.opt = o)
        tcp == SelectSeq(words, LAMBDA w : w.opt = "tcp" \/ (w.opt = "tcp:" /\ w.n \in 0..2))
        ifaces == SelectSeq(LinesOf({"interface"}), LAMBDA l : l.args[1].ok)
        default == [ndots |-> 1, timeout |-> 5, attempts |-> 2]
    IN /\ \A o \in {"edns0", "rotate", "recurse", "smart"} : resconf.options[o] = (naming(o) # <<>>)
       /\ \A o \in DOMAIN default :
            resconf.options[o] = IF naming(o) = <<>> THEN default[o] ELSE Last(naming(o)).n
       /\ resconf.options.tcp = IF tcp = <<>> THEN "enable"
                                ELSE IF Last(tcp).opt = "tcp" THEN "only"
                                ELSE <<"disable", "only", "enable">>[Last(tcp).n + 1]
       /\ resconf.iface.addr = IF ifaces = <<>> THEN "any" ELSE Last(ifaces).args[1].addr

\* Whatever the files say and the seed is, the servers are asked each once, in
\* the order of resolv.conf unless "rotate" is set, and each on its own port
\* if no other server has its address (dns_hints_query(), dns_hints_port()).
ServersAsked ==
    LET soa == InsertResconf(resconf)
        conf == SelectSeq(resconf.nameserver, LAMBDA sa : sa.af # 0)
        plain == [k \in DOMAIN conf |-> [af |-> conf[k].af, addr |-> conf[k].addr]]
    IN \A seed \in Seeds, box \in Boxes :
        LET order == HintsQuery(soa, seed, box)
        IN /\ IF resconf.options.rotate
              THEN Len(order) = Len(plain)
                   /\ \A a \in ToSet(plain) : Cardinality({k \in DOMAIN order : order[k] = a})
                                            = Cardinality({k \in DOMAIN plain : plain[k] = a})
              ELSE order = plain
           /\ \A k \in DOMAIN conf :
                (\A j \in DOMAIN conf : plain[j] = plain[k] => j = k)
                   => HintsPort(soa, plain[k]) = conf[k].port


\* An address is looked up by every name of its lines and its name by the
\* first name of each, in the order of the file, wholly or not at all.
HostsBothWays ==
    LET lines == SelectSeq(read, LAMBDA r : r.table = "hosts" /\ r.line.key.ok /\ Names(r.line) # <<>>)
        addrs == {<<lines[k].line.key.af, lines[k].line.key.addr>> : k \in DOMAIN lines}
        named == UNION {ToSet(Names(lines[k].line)) : k \in DOMAIN lines}
        whole(answer, want) == IF Len(want) > HostsRoom THEN answer.error = "ENOBUFS"
                               ELSE answer = [error |-> "none", records |-> want]
    IN /\ \A a \in addrs :
            LET its == SelectSeq(lines, LAMBDA r : r.line.key.af = a[1] /\ r.line.key.addr = a[2])
            IN \A data \in {[kind |-> "address", af |-> a[1], addr |-> a[2]],
                            [kind |-> "name", name |-> Arpa(a[1], a[2])]} :
                 whole(HostsQuery("PTR", EnsureArpa(data)), [k \in DOMAIN its |-> Names(its[k].line)[1]])
       /\ \A n \in named, t \in {"A", "AAAA"} :
            LET entry(r) == LET ns == SelectSeq(Names(r.line), LAMBDA m : m = n)
                            IN IF r.line.key.af = (IF t = "A" THEN AF_INET ELSE AF_INET6)
                               THEN [k \in DOMAIN ns |-> r.line.key.addr] ELSE <<>>
            IN whole(HostsQuery(t, n), FlattenSeq([k \in DOMAIN lines |-> entry(lines[k])]))
=============================================================================
