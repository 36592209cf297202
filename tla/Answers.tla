------------------------------- MODULE Answers ------------------------------
(***************************************************************************)
(* What becomes of an answer (dns/dns.c): its records are put into Lua     *)
(* tables, a list for most types, and for MX one list for each preference. *)
(* And what socket.prepare_tcp() and prepare_udp() (socket.c) make of the  *)
(* tables for a host's addresses.                                          *)
(***************************************************************************)
EXTENDS Integers, Sequences, FiniteSets, SequencesExt

CONSTANTS
    Calls,          \* [family, host, max]: a family, or "mx" for a query of that
                    \* type, and the records an answer may hold at most
    RRs(_)          \* the records the answers of a call may hold: [section, type, data, bad]

VARIABLES
    call,       \* the call, fixed
    queries,    \* for each type asked: [seen, table, stage, error]
    info        \* what prepare_tcp() and prepare_udp() returned

answersVars == <<call, queries, info>>
Types == {"a", "aaaa", "mx"}

-----------------------------------------------------------------------------
\* push_query_types_table()
QueryTypes(family) ==
    CASE family = "AF_INET" -> <<"a">> [] family = "AF_INET6" -> <<"aaaa">>
      [] family = "AF_UNSPEC" -> <<"aaaa", "a">> [] family = "mx" -> <<"mx">>

EmptyTable(type) ==
    IF type = "mx" THEN [priorities |-> <<>>, hosts |-> [p \in {} |-> <<>>], n |-> 0] ELSE <<>>

\* Mutant: equal priorities are listed again.
PriorityTwice(list, p) ==
    LET above == {i \in DOMAIN list : list[i] >= p}
        at == IF above = {} THEN Len(list) + 1 ELSE CHOOSE i \in above : \A j \in above : i <= j
    IN InsertAt(list, at, p)
\* insert_mx_priority_sorted()
InsertPriority(list, p) ==
    LET above == {i \in DOMAIN list : list[i] >= p}
        at == CHOOSE i \in above : \A j \in above : i <= j
    IN IF above = {} THEN Append(list, p)
       ELSE IF list[at] = p THEN list
       ELSE InsertAt(list, at, p)

\* parse_rr_mx()
ParseMx(table, mx) ==
    LET old == IF mx.preference \in DOMAIN table.hosts THEN table.hosts[mx.preference] ELSE <<>>
    IN [priorities |-> InsertPriority(table.priorities, mx.preference),
        hosts |-> [p \in DOMAIN table.hosts \cup {mx.preference} |->
                      IF p = mx.preference THEN Append(old, mx.host) ELSE table.hosts[p]],
        n |-> table.n + 1]
\* parse_rr(): the other types are kept in a list.
ParseRr(table, rr) == IF rr.type = "mx" THEN ParseMx(table, rr.data) ELSE Append(table, rr.data)

Found(q, type) == IF type = "mx" THEN q.table.n > 0 ELSE q.table # <<>>
Wanted(rr, type) == rr.section = "AN" /\ rr.type = type

\* mydns_parse_answer(), one record: what cannot be read raises a Lua error.
TakeRecord(type, rr) ==
    LET q == queries[type]
        raises == Wanted(rr, type) /\ rr.bad
    IN /\ q.stage = "parse" /\ Len(q.seen) < call.max
       /\ queries' = [queries EXCEPT ![type].seen = Append(@, rr),
                                     ![type].table = IF Wanted(rr, type) /\ ~raises THEN ParseRr(@, rr) ELSE @,
                                     ![type].stage = IF raises THEN "raised" ELSE @]
       /\ UNCHANGED <<call, info>>

\* check_special(): "*", or an address of the type asked for.
Special(type, host) ==
    CASE type = "a" /\ host = "*" -> <<[af |-> 4, addr |-> "any"]>>
      [] type = "aaaa" /\ host = "*" -> <<[af |-> 6, addr |-> "any"]>>
      [] type = "a" /\ host = "4.4.4.4" -> <<[af |-> 4, addr |-> host]>>
      [] type = "aaaa" /\ host = "::6" -> <<[af |-> 6, addr |-> host]>>
      [] OTHER -> <<>>

\* mydns_parse_answer() after its loop.
FinishAnswer(type) ==
    LET q == queries[type]
        special == Special(type, call.host)
    IN /\ q.stage = "parse"
       /\ queries' =
            IF Found(q, type) THEN [queries EXCEPT ![type].stage = "given"]
            ELSE IF special # <<>> THEN [queries EXCEPT ![type].stage = "given", ![type].table = special]
            ELSE [queries EXCEPT ![type].stage = "nil", ![type].error = "no record"]
       /\ UNCHANGED <<call, info>>
\* mydns_parse_answer() of a query that timed out, or that dns_res_fetch() has
\* no answer for.
NoAnswer(type, why) ==
    /\ queries[type].stage = "parse" /\ queries[type].seen = <<>>
    /\ queries' = [queries EXCEPT ![type].stage = "nil", ![type].error = why]
    /\ UNCHANGED <<call, info>>

\* mydns_mx_get_i()
MxGetI(table, n) ==
    LET k == IF n > table.n THEN n % table.n ELSE n
        all == FlattenSeq([i \in DOMAIN table.priorities |-> table.hosts[table.priorities[i]]])
    IN IF n <= 0 \/ k \notin DOMAIN all THEN "nil" ELSE all[k]

-----------------------------------------------------------------------------
Given(type) == type \in DOMAIN queries /\ queries[type].stage = "given"
ErrorOf(type) == IF type \in DOMAIN queries THEN queries[type].error ELSE "none"
Answered == \A t \in DOMAIN queries : queries[t].stage \in {"given", "nil"}

InfoOf(af, socktype, addr) == [is |-> "info", family |-> af, socktype |-> socktype, addr |-> addr]
RaisedInfo(why) == [is |-> "raised", why |-> why]
\* build_tcp_info(): an empty table for AAAA would take the result off the Lua
\* stack, and an address would be indexed in its place.
TcpInfo ==
    CASE Given("aaaa") /\ queries["aaaa"].table # <<>> -> InfoOf(6, "stream", queries["aaaa"].table[1])
      [] Given("aaaa") /\ queries["aaaa"].table = <<>> ->
           RaisedInfo(IF Given("a") /\ queries["a"].table # <<>> THEN "index of a userdata" ELSE "ENOENT")
      [] ~Given("aaaa") /\ Given("a") /\ queries["a"].table # <<>> -> InfoOf(4, "stream", queries["a"].table[1])
      [] OTHER -> RaisedInfo("ENOENT")
\* build_udp_info(): the value left on top of the Lua stack is the list of
\* addresses, not the table made for the result; without any, nothing is.
UdpInfo ==
    CASE Given("aaaa") /\ queries["aaaa"].table # <<>> -> [is |-> "addresses", list |-> queries["aaaa"].table]
      [] ~(Given("aaaa") /\ queries["aaaa"].table # <<>>) /\ Given("a") /\ queries["a"].table # <<>> ->
           [is |-> "addresses", list |-> queries["a"].table]
      [] OTHER -> [is |-> "nothing"]

\* rsock_prepare_tcp() and rsock_prepare_udp() once their queries are answered.
PrepareTcp ==
    /\ call.family # "mx" /\ Answered /\ info.is = "none"
    /\ info' = TcpInfo
    /\ UNCHANGED <<call, queries>>
PrepareUdp ==
    /\ call.family # "mx" /\ Answered /\ info.is = "none"
    /\ info' = UdpInfo
    /\ UNCHANGED <<call, queries>>

AnswersInit ==
    /\ call \in Calls
    /\ queries = [t \in ToSet(QueryTypes(call.family)) |->
                    [seen |-> <<>>, table |-> EmptyTable(t), stage |-> "parse", error |-> "none"]]
    /\ info = [is |-> "none"]
AnswersNext ==
    \/ \E t \in DOMAIN queries :
         \/ \E rr \in RRs(call) : TakeRecord(t, rr)
         \/ FinishAnswer(t)
         \/ \E why \in {"Timed out.", "failed"} : NoAnswer(t, why)
    \/ PrepareTcp
    \/ PrepareUdp

-----------------------------------------------------------------------------
(* Properties.                                                              *)

AnswersTypeOK ==
    /\ \A t \in DOMAIN queries : /\ t \in Types /\ Len(queries[t].seen) <= call.max
                                 /\ queries[t].stage \in {"parse", "given", "nil", "raised"}
    /\ info.is \in {"none", "info", "addresses", "nothing", "raised"}

WantedOf(t) == SelectSeq(queries[t].seen, LAMBDA rr : Wanted(rr, t) /\ ~rr.bad)

\* mx:get_i(1) to mx:get_i(n) are the hosts of the answer by preference, those
\* of one preference in the order they came in; beyond n they come again, but
\* for the multiples of n, for which there is none.
MxOrder ==
    "mx" \in DOMAIN queries =>
        LET mx == WantedOf("mx")
            n == Len(mx)
            before(j, k) == \/ mx[j].data.preference < mx[k].data.preference
                            \/ mx[j].data.preference = mx[k].data.preference /\ j <= k
            rank(k) == Cardinality({j \in 1..n : before(j, k)})
            table == queries["mx"].table
        IN \A k \in 1..n : /\ MxGetI(table, rank(k)) = mx[k].data.host
                           /\ MxGetI(table, n + rank(k)) = (IF rank(k) = n THEN "nil" ELSE mx[k].data.host)

\* A table given to the program is never empty: it lists the records of the
\* answer section with the type asked for, in their order, or else the address
\* that the name itself is.
ListsWhole ==
    \A t \in DOMAIN queries \ {"mx"} :
        Given(t) =>
            LET want == [k \in DOMAIN WantedOf(t) |-> WantedOf(t)[k].data]
            IN queries[t].table = IF want # <<>> THEN want ELSE Special(t, call.host)

\* prepare_tcp() gives the first AAAA or else the first A address with the
\* family that belongs to it, and raises only when it has neither.
TcpInfoRight ==
    LET some == {t \in DOMAIN queries : Given(t)}
    IN /\ info.is = "raised" => some = {} /\ info.why = "ENOENT"
       /\ info.is = "info" => /\ info.addr.af = info.family
                              /\ info.family = (IF "aaaa" \in some THEN 6 ELSE 4)

\* What a program is given of an answer is what the answer says: the table of a
\* query, the hosts of an MX answer by preference, the address to connect to.
AnswersGiven == MxOrder /\ ListsWhole /\ TcpInfoRight
=============================================================================
