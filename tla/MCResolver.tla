------------------------------ MODULE MCResolver -----------------------------
(***************************************************************************)
(* A small Internet for the resolver, and the calls made on it.            *)
(***************************************************************************)
EXTENDS Resolver

W == <<"w", "d">>        \* an address
C == <<"c", "d">>        \* an alias of W
L == <<"l", "d">>        \* an alias of itself
M == <<"m", "d">>        \* a mail domain whose exchanger is W
X == <<"x", "z">>        \* an address in a zone the root delegates
N1 == <<"n1", "z">>      \* name server of z, glue in the referral
Y == <<"x", "v">>        \* an address in a zone whose servers have no glue
N2 == <<"n2", "y">>      \* name server of z and v, no glue
N3 == <<"n3", "y">>      \* name server of v, no glue

Ans(an) == [an |-> an, ns |-> <<>>, ar |-> <<>>, aa |-> TRUE]
Nothing == [an |-> <<>>, ns |-> <<>>, ar |-> <<>>, aa |-> FALSE]
Referral == [an |-> <<>>, ns |-> <<Rr(<<"z">>, "NS", N1), Rr(<<"z">>, "NS", N2)>>,
             ar |-> <<Rr(N1, "A", "t1")>>, aa |-> FALSE]
Unglued == [an |-> <<>>, ns |-> <<Rr(<<"v">>, "NS", N2), Rr(<<"v">>, "NS", N3)>>,
            ar |-> <<>>, aa |-> FALSE]

\* What a server with the given address says: s1 and s2 are the configured
\* servers (the roots of a recursive resolver), t1 and t2 serve the zone z.
MCAnswers(remote, q) ==
    CASE q.qname = W /\ q.qtype = "A" ->
             {Ans(<<Rr(W, "A", 1)>>)}
      [] q.qname = W /\ q.qtype # "A" -> {Nothing}
      [] q.qname = C -> {Ans(<<Rr(C, "CNAME", W)>>),
                         Ans(<<Rr(C, "CNAME", W), Rr(W, "A", 1)>>)}
      [] q.qname = L -> {Ans(<<Rr(L, "CNAME", L)>>)}
      [] q.qname = M /\ q.qtype = "MX" -> {Ans(<<Rr(M, "MX", W)>>), Nothing}
      [] q.qname = M /\ q.qtype = "A" -> {Ans(<<Rr(M, "A", 2)>>)}
      [] q.qname = N3 -> {Ans(<<Rr(N3, "A", "t1")>>)}
      [] q.qname = Y /\ remote.addr = "s1" -> {Unglued}
      [] q.qname = Y /\ remote.addr # "s1" -> {Nothing}
      [] q.qname = N2 -> {Ans(<<Rr(N2, "A", "t2")>>), Nothing}
      [] q.qname = X /\ remote.addr \in {"s1", "s2"} -> {Referral}
      [] q.qname = X /\ remote.addr = "t1" -> {Nothing, Ans(<<Rr(X, "A", 3)>>)}
      [] q.qname = X /\ remote.addr = "t2" -> {Ans(<<Rr(X, "A", 3)>>), Ans(<<>>)}
      [] OTHER -> {Nothing}

S1 == [type |-> "A", addr |-> "s1", port |-> 53]
S2 == [type |-> "A", addr |-> "s2", port |-> 53]
S6 == [type |-> "AAAA", addr |-> "s6", port |-> 53]

\* ratchet's defaults, on a shorter clock: two attempts of 3 s, 6 s in all.
Base == [qname |-> W, qtype |-> "A", special |-> FALSE, all |-> FALSE, type |-> "ANY",
         recurse |-> FALSE, smart |-> FALSE, rotate |-> FALSE, attempts |-> 2,
         timeout |-> 3, expire |-> 6, ndots |-> 1, search |-> <<>>, lookup |-> <<"b">>,
         hosts |-> <<>>, servers |-> <<S1, S2>>, faults |-> {}]

MCConfs ==
  { [Base EXCEPT !.faults = {"dup", "runt"}],
    [Base EXCEPT !.faults = {"icmp", "trunc"}],
    [Base EXCEPT !.timeout = 1, !.expire = 40],
    [Base EXCEPT !.timeout = 1, !.attempts = 1, !.rotate = TRUE, !.expire = 9],
    [Base EXCEPT !.faults = {"trunc", "tcp_refused", "tcp_eof"}, !.servers = <<S1>>],
    [Base EXCEPT !.type = "STREAM", !.servers = <<S1>>, !.faults = {"short"}],
    [Base EXCEPT !.type = "DGRAM", !.faults = {"trunc"}, !.all = TRUE, !.special = TRUE],
    [Base EXCEPT !.qname = C, !.rotate = TRUE],
    [Base EXCEPT !.qname = C, !.servers = <<S1>>, !.faults = {"dup"}, !.timeout = 2, !.expire = 4],
    [Base EXCEPT !.qname = L, !.servers = <<S1>>],
    [Base EXCEPT !.qname = M, !.qtype = "MX", !.smart = TRUE],
    [Base EXCEPT !.qname = M, !.qtype = "MX", !.expire = 20],
    [Base EXCEPT !.qname = X, !.recurse = TRUE, !.servers = <<S1>>, !.attempts = 1, !.expire = 9],
    [Base EXCEPT !.qname = Y, !.recurse = TRUE, !.servers = <<S1>>, !.attempts = 1, !.expire = 9],
    [Base EXCEPT !.qname = <<"w">>, !.search = <<<<"e">>, <<"d">>>>,
                 !.lookup = <<"f", "c", "b">>, !.hosts = <<Rr(W, "A", 1)>>],
    [Base EXCEPT !.lookup = <<"f", "b">>, !.hosts = <<Rr(W, "A", 1), Rr(W, "A", 2), Rr(W, "A", 3)>>],
    [Base EXCEPT !.servers = <<S6>>, !.lookup = <<"b", "f">>],
    [Base EXCEPT !.servers = <<S6>>, !.lookup = <<"b", "f">>,
                 !.hosts = <<Rr(Hints, "A", "s1")>>] }
=============================================================================
