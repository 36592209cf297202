------------------------------ MODULE DnsWire ------------------------------
(***************************************************************************)
(* Domain names inside a DNS packet (libdns/dns.c): how a name is written  *)
(* with a pointer to an earlier copy of its tail, and how it is read back. *)
(*                                                                         *)
(* A packet is the octets after the 12-octet header, its capacity, the     *)
(* dictionary of offsets at which names begin, the record counts of its    *)
(* header, the memos of where its sections lie, and the octets an earlier  *)
(* write left behind its end.  A name is the sequence of its labels, a     *)
(* label the sequence of its octets; the root is <<>>.                      *)
(***************************************************************************)
EXTENDS Integers, Sequences, SequencesExt, FiniteSetsExt

CONSTANT DictSize    \* DNS_P_DICTSIZE: how many names a packet remembers

ASSUME DictSizeAssumption == DictSize \in Nat \ {0}

MaxPtrs == 127       \* DNS_D_MAXPTRS
MaxOffset == 16383   \* the largest offset a pointer can hold

\* The four sections, in the order they have in a packet.
QD == 1
AN == 2
NS == 3
AR == 4
Section == QD..AR

HeaderLen == 12
PEnd(P) == HeaderLen + Len(P.data)
Octet(P, i) == P.data[i - HeaderLen + 1]
Octets(P, i, n) == SubSeq(P.data, i - HeaderLen + 1, i - HeaderLen + n)
Room(P) == P.size - PEnd(P)

Emit(P, octets) ==
    [P EXCEPT !.data = @ \o octets, !.past = SubSeq(@, Len(octets) + 1, Len(@))]
\* Octets are written behind the end, as far as there is room, and not taken in.
Scribble(P, octets) ==
    LET n == Min({Len(octets), Room(P)})
    IN [P EXCEPT !.past = SubSeq(octets, 1, n) \o SubSeq(@, n + 1, Len(@))]
\* The end moves over two octets that keep what they were.  TLC stops if an
\* octet that was never written is used.
Unwritten == "unwritten"
Skip2(P) == Emit(P, [i \in 1..2 |-> IF i <= Len(P.past) THEN P.past[i] ELSE Unwritten])
\* The end goes back to where it was in P0.
Back(P, P0) ==
    [P EXCEPT !.data = P0.data, !.past = SubSeq(P.data, Len(P0.data) + 1, Len(P.data)) \o @]
U16(n) == <<n \div 256, n % 256>>
U16At(P, i) == 256 * Octet(P, i) + Octet(P, i + 1)

Ok(P) == [P |-> P, error |-> "none"]
Error(P, e) == [P |-> P, error |-> e]

\* strcasecmp() on labels: upper-case letters are 65..90.
Lower(c) == IF c \in 65..90 THEN c + 32 ELSE c
LowerName(name) == [i \in DOMAIN name |-> [k \in DOMAIN name[i] |-> Lower(name[i][k])]]
Same(m, n) == LowerName(m) = LowerName(n)

\* What a caller has room for when it reads a name with its dots.
MaxName == 255       \* DNS_D_MAXNAME
TextLen(name) == FoldLeft(LAMBDA n, label : n + Len(label) + 1, IF name = <<>> THEN 1 ELSE 0, name)

\* The two top bits of the octet at an offset tell a label from a pointer.
IsLabel(P, i) == Octet(P, i) \div 64 = 0
IsPointer(P, i) == Octet(P, i) \div 64 = 3
Target(P, i) == U16At(P, i) % 16384

-----------------------------------------------------------------------------
\* dns_l_expand(): the label at src, behind any pointers, and what follows it.
RECURSIVE LExpand(_, _, _)
LExpand(P, src, nptrs) ==
    LET invalid == [label |-> <<>>, nxt |-> PEnd(P)]
    IN CASE src >= PEnd(P) -> invalid
         [] src < PEnd(P) /\ IsLabel(P, src) ->
              LET len == Octet(P, src)
              IN IF PEnd(P) - (src + 1) < len THEN invalid
                 ELSE [label |-> Octets(P, src + 1, len), nxt |-> src + 1 + len]
         [] src < PEnd(P) /\ IsPointer(P, src) ->
              IF nptrs + 1 > MaxPtrs \/ PEnd(P) - src < 2 THEN invalid
              ELSE LExpand(P, Target(P, src), nptrs + 1)
         [] OTHER -> invalid

\* dns_l_skip()
LSkip(P, src) ==
    IF src < PEnd(P) /\ IsLabel(P, src)
       /\ Octet(P, src) > 0 /\ PEnd(P) - (src + 1) >= Octet(P, src)
    THEN src + 1 + Octet(P, src) ELSE PEnd(P)

\* dns_d_skip(): the offset behind the name at src.
RECURSIVE DSkip(_, _)
DSkip(P, src) ==
    CASE src >= PEnd(P) -> PEnd(P)
      [] src < PEnd(P) /\ IsLabel(P, src) ->
           LET len == Octet(P, src)
           IN IF len = 0 THEN src + 1
              ELSE IF PEnd(P) - (src + 1) > len THEN DSkip(P, src + 1 + len) ELSE PEnd(P)
      [] src < PEnd(P) /\ IsPointer(P, src) -> IF PEnd(P) - src < 2 THEN PEnd(P) ELSE src + 2
      [] OTHER -> PEnd(P)

\* dns_d_expand(): the name at src; every caller refuses one that is too long.
RECURSIVE ExpandFrom(_, _, _, _)
ExpandFrom(P, src, nptrs, name) ==
    LET illegal == [ok |-> FALSE, name |-> name]
    IN CASE src >= PEnd(P) -> illegal
         [] src < PEnd(P) /\ IsLabel(P, src) ->
              LET len == Octet(P, src)
              IN IF len = 0 THEN [ok |-> TextLen(name) <= MaxName, name |-> name]
                 ELSE IF PEnd(P) - (src + 1) < len THEN illegal
                 ELSE ExpandFrom(P, src + 1 + len, 0, Append(name, Octets(P, src + 1, len)))
         [] src < PEnd(P) /\ IsPointer(P, src) ->
              IF nptrs + 1 > MaxPtrs \/ PEnd(P) - src < 2 THEN illegal
              ELSE ExpandFrom(P, Target(P, src), nptrs + 1, name)
         [] OTHER -> illegal
DExpand(P, src) == ExpandFrom(P, src, 0, <<>>)

-----------------------------------------------------------------------------
\* The name written out in full: a length before every label, 0 at its end.
Stem(name) == FlattenSeq([i \in DOMAIN name |-> <<Len(name[i]) % 64>> \o name[i]])
Plain(name) == Stem(name) \o <<0>>

\* The offsets dns_d_comp() tries for one entry of the dictionary: the name
\* there and each of its tails.
RECURSIVE TailsFrom(_, _)
TailsFrom(P, p) ==
    LET l == LExpand(P, p, 0)
    IN IF l.label = <<>> THEN <<>> ELSE <<p>> \o TailsFrom(P, l.nxt)
Candidates(P) == FlattenSeq([i \in DOMAIN P.dict |-> TailsFrom(P, P.dict[i])])

CommonPrefix(m, n) ==
    Max({k \in 0..Min({Len(m), Len(n)}) : Same(SubSeq(m, 1, k), SubSeq(n, 1, k))})

\* The tail of name that begins at label j is compared with each candidate.
\* The label last compared, number `at`, stays in a.label when a candidate
\* only agrees in part: the next candidate is compared with that label in
\* place of label j.
TailWith(name, at, j) ==
    IF at > Len(name) THEN <<>> ELSE <<name[at]>> \o SubSeq(name, j + 1, Len(name))
Agree(s, name, j, c, k, theirs) ==
    LET at == IF k = 0 THEN s.at ELSE j + k
    IN [at |-> at,
        found |-> IF at > Len(name) /\ k = Len(theirs) /\ c <= MaxOffset THEN c ELSE 0]
Compare(s, name, j, c, theirs) ==
    Agree(s, name, j, c, CommonPrefix(TailWith(name, s.at, j), theirs), theirs)
MatchTail(P, name, j) ==
    LET Try(s, c) == IF s.found > 0 THEN s ELSE Compare(s, name, j, c, DExpand(P, c).name)
    IN FoldLeft(Try, [at |-> j, found |-> 0], Candidates(P)).found

\* Mutant: the pointer is to the label behind the one found.
ShortenedBeyond(name, found) ==
    LET hits == {j \in DOMAIN found : found[j] > 0}
    IN IF hits = {} THEN Plain(name)
       ELSE Stem(SubSeq(name, 1, Min(hits) - 1)) \o U16(49152 + found[Min(hits)] + 2)
\* The longest tail found in the dictionary becomes a pointer.
Shortened(name, found) ==
    LET hits == {j \in DOMAIN found : found[j] > 0}
    IN IF hits = {} THEN Plain(name)
       ELSE Stem(SubSeq(name, 1, Min(hits) - 1)) \o U16(49152 + found[Min(hits)])
\* dns_d_comp().  Nothing is compressed unless the plain name would fit with
\* room to spare.
DComp(P, name, lim) ==
    IF Len(Plain(name)) >= lim THEN Plain(name)
    ELSE Shortened(name, [j \in 1..Len(name) |-> MatchTail(P, name, j)])

\* dns_p_dictadd(): the name at dn takes the place of the entry its pointer
\* leads to, or the next free place if there is one.
RECURSIVE PointerFrom(_, _, _)
PointerFrom(P, dn, lp) ==
    CASE lp >= PEnd(P) -> 0
      [] lp < PEnd(P) /\ lp # dn /\ IsPointer(P, lp) /\ Target(P, lp) \in Range(P.dict) -> Target(P, lp)
      [] OTHER -> PointerFrom(P, dn, LSkip(P, lp))
DictAdd(P, dn) ==
    LET known == PointerFrom(P, dn, dn)
        i == CHOOSE i \in DOMAIN P.dict : P.dict[i] = known /\ \A k \in 1..(i - 1) : P.dict[k] # known
    IN IF known > 0 THEN [P EXCEPT !.dict[i] = dn]
       ELSE IF Len(P.dict) < DictSize THEN [P EXCEPT !.dict = Append(@, dn)]
       ELSE P

\* dns_d_comp() in place: the name is written in full before it is shortened.
NamePush(P, name) ==
    LET Take(octets, Q) == IF Len(octets) > Room(P) THEN Error(Q, "ENOBUFS") ELSE Ok(Emit(Q, octets))
    IN Take(DComp(P, name, Room(P)), Scribble(P, Plain(name)))
\* dns_d_push()
Remembered(r, dn) == IF r.error = "none" THEN Ok(DictAdd(r.P, dn)) ELSE r
DPush(P, name) == Remembered(NamePush(P, name), PEnd(P))

\* Pieces are written one after the other, each if it leaves `spare` octets.
Pieces(r, pieces, spare) ==
    FoldLeft(LAMBDA s, piece :
                IF s.error # "none" THEN s
                ELSE IF Room(s.P) < Len(piece) + spare THEN Error(s.P, "ENOBUFS")
                ELSE Ok(Emit(s.P, piece)), r, pieces)
=============================================================================
