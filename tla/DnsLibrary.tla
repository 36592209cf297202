----------------------------- MODULE DnsLibrary -----------------------------
(***************************************************************************)
(* The parts of libdns and of dns/dns.c that compute with data and wait    *)
(* for nothing: packets, query identifiers, the tables of names, and what  *)
(* is made of an answer.  They share no state: a behaviour is one of one   *)
(* part, the others stay as they are.                                      *)
(***************************************************************************)
EXTENDS DnsPacket, NameTables, Answers

VARIABLE part       \* the part whose steps are taken, fixed

vars == <<part, packetVars, permutorVars, tablesVars, answersVars>>

PacketIdle == PacketInit /\ conf = 1
PermutorIdle == drawn = <<>> /\ permutor = [low |-> 0, high |-> 3, key |-> 1, stepi |-> 0]
TablesIdle == files = 1 /\ sa_count = 0 /\ hosts = <<>> /\ read = <<>> /\ resconf = ResconfOpen(<<"h">>)
AnswersIdle == call = [family |-> "mx", host |-> "name", max |-> 0] /\ queries = <<>> /\ info = [is |-> "none"]

Init ==
    \/ part = "packets" /\ PacketInit /\ PermutorIdle /\ TablesIdle /\ AnswersIdle
    \/ part = "qids" /\ PermutorInit /\ PacketIdle /\ TablesIdle /\ AnswersIdle
    \/ part = "tables" /\ TablesInit /\ PacketIdle /\ PermutorIdle /\ AnswersIdle
    \/ part = "answers" /\ AnswersInit /\ PacketIdle /\ PermutorIdle /\ TablesIdle

Packets == part = "packets" /\ PacketNext /\ UNCHANGED <<part, permutorVars, tablesVars, answersVars>>
Qids == part = "qids" /\ MkQid /\ UNCHANGED <<part, packetVars, tablesVars, answersVars>>
Tables == part = "tables" /\ TablesNext /\ UNCHANGED <<part, packetVars, permutorVars, answersVars>>
AnswerTables == part = "answers" /\ AnswersNext /\ UNCHANGED <<part, packetVars, permutorVars, tablesVars>>

Next == Packets \/ Qids \/ Tables \/ AnswerTables
Spec == Init /\ [][Next]_vars

\* Packets keep within their buffers, dictionaries and memos, the three
\* nameservers, four domains and three sources of resolv.conf within their
\* arrays, and ports within 16 bits.
TypeOK ==
    /\ part \in {"packets", "qids", "tables", "answers"}
    /\ PacketsTypeOK
    /\ permutor.stepi \in Nat
    /\ TablesTypeOK
    /\ AnswersTypeOK
=============================================================================
