------------------------------- MODULE ResConf -------------------------------
(***************************************************************************)
(* dns_resconf_search(): the fully qualified names a host name stands for. *)
(* Names are sequences of labels.                                          *)
(***************************************************************************)
EXTENDS Integers, Sequences

\* The dots memchr() finds in the name as it was written.
Dots(name, anchored) ==
    (IF name = <<>> THEN 0 ELSE Len(name) - 1) + (IF anchored THEN 1 ELSE 0)

SearchInit == [at |-> 0, srchi |-> 0]

\* One call of dns_resconf_search() in iterator state st: the candidate, if
\* there is one more, and the state after the call.
ResconfSearch(name, ndots, search, options, st) ==
    LET own(at) == [found |-> TRUE, name |-> name, st |-> [st EXCEPT !.at = at]]
        suffix == [found |-> TRUE, name |-> name \o search[st.srchi + 1],
                   st |-> [at |-> 1, srchi |-> st.srchi + 1]]
        done == [found |-> FALSE, name |-> <<>>, st |-> [st EXCEPT !.at = 3]]
        last == IF ndots < options.ndots THEN own(3) ELSE done
        next == IF st.srchi < Len(search) THEN suffix ELSE last
    IN  CASE st.at = 0 /\ ndots >= options.ndots -> own(1)
          [] st.at = 0 /\ ndots < options.ndots -> next
          [] st.at = 1 -> next
          [] OTHER -> done

\* The candidates of successive calls, from a zeroed state.
Candidates(name, ndots, search, options) ==
    LET calls == Len(search) + 2
        step[k \in 0..calls] ==
          IF k = 0 THEN [found |-> FALSE, name |-> <<>>, st |-> SearchInit]
          ELSE ResconfSearch(name, ndots, search, options, step[k - 1].st)
        hits == SelectSeq([k \in 1..calls |-> step[k]], LAMBDA c : c.found)
    IN  [k \in DOMAIN hits |-> hits[k].name]
=============================================================================
