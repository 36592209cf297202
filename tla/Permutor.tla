------------------------------ MODULE Permutor ------------------------------
(***************************************************************************)
(* Query identifiers (the dns_k_permutor functions of libdns/dns.c): a     *)
(* Feistel network over a block of two halves, walked past the values      *)
(* outside the range wanted.  The round function, TEA in the code, is any  *)
(* function of the round and of half a block.  And dns_k_shuffle16(), the  *)
(* mixing by which records are shuffled, for halves of HalfBits bits.      *)
(***************************************************************************)
EXTENDS Integers, Sequences

CONSTANTS
    Ranges,         \* pairs <<low, high>> given to dns_k_permutor_init()
    RoundKeys,      \* seeds of round functions
    F(_, _, _),     \* F(key, k, x): dns_k_tea_encrypt() of round k and half x
    BitXor(_, _),   \* the exclusive or of two halves
    MaxSteps,       \* how many identifiers are drawn
    HalfBits,       \* the bits of half a block: at most 8 in the code
    Boxes           \* permutations of a half, in place of the AES s-box

HalvesOf(bits) == 0..(2 ^ bits - 1)

ASSUME XorAssumption ==
    \A b \in 0..HalfBits : \A x, y \in HalvesOf(b) :
        BitXor(x, y) \in HalvesOf(b) /\ BitXor(BitXor(x, y), y) = x
\* What powers of 2 are, and that dns_k_tea_encrypt() gives numbers.
ASSUME PowerAssumption ==
    /\ \A b \in 0..HalfBits : 2 ^ b \in Nat \ {0} /\ 2 ^ (2 * b) = 2 ^ b * 2 ^ b
    /\ \A b \in 0..16 : 2 ^ b \in Nat /\ 2 ^ (b + 1) = 2 * 2 ^ b
ASSUME FAssumption ==
    \A key \in RoundKeys, k \in 0..7, b \in 0..HalfBits : \A x \in HalvesOf(b) : F(key, k, x) \in Nat
ASSUME BoxesAssumption ==
    /\ HalfBits \in Nat
    /\ \A box \in Boxes :
         /\ box \in [HalvesOf(HalfBits) -> HalvesOf(HalfBits)]
         /\ \A x, y \in HalvesOf(HalfBits) : box[x] = box[y] => x = y

VARIABLES
    permutor,   \* [low, high, key, stepi]
    drawn       \* the identifiers so far (history)

permutorVars == <<permutor, drawn>>
Rounds == 8     \* DNS_K_PERMUTOR_ROUNDS

PowOf(n) == CHOOSE i \in 0..16 : 2 ^ i >= n /\ (i = 0 \/ 2 ^ (i - 1) < n)
PermutorLength(p) == p.high - p.low + 1
\* dns_k_permutor_init(): half the width, which is made even.
HalfWidth(p) == LET width == PowOf(PermutorLength(p)) IN (width + (width % 2)) \div 2

\* A range is not empty, has at most 16 bits, and half its width is at most
\* HalfBits.
ASSUME RangesAssumption ==
    \A r \in Ranges :
        /\ r[1] \in Nat /\ r[2] \in Nat /\ r[1] <= r[2] /\ r[2] - r[1] + 1 <= 2 ^ 16
        /\ HalfWidth([low |-> r[1], high |-> r[2]]) \in 0..HalfBits

-----------------------------------------------------------------------------
Blocks(p) == [l : HalvesOf(HalfWidth(p)), r : HalvesOf(HalfWidth(p))]
Halved(p, n) == [l |-> (n \div 2 ^ HalfWidth(p)) % 2 ^ HalfWidth(p), r |-> n % 2 ^ HalfWidth(p)]
Joined(p, lr) == lr.l * 2 ^ HalfWidth(p) + lr.r
\* dns_k_permutor_F()
PermutorF(p, k, x) == F(p.key, k, x) % 2 ^ HalfWidth(p)

\* dns_k_permutor_E() between its first and its last line.
EncryptRound(p, k, lr) == [l |-> lr.r, r |-> BitXor(lr.l, PermutorF(p, k, lr.r))]
Encrypting(p, lr0) ==
    LET lr[i \in 0..(Rounds - 1)] == IF i = 0 THEN lr0 ELSE EncryptRound(p, i - 1, lr[i - 1])
    IN lr
Encrypted(p, lr0) == Encrypting(p, lr0)[Rounds - 1]
\* dns_k_permutor_D(): lr[j] holds the halves when its i is Rounds - 1 - j.
DecryptRound(p, k, lr) == [l |-> BitXor(lr.r, PermutorF(p, k, lr.l)), r |-> lr.l]
Decrypting(p, lr0) ==
    LET lr[j \in 0..(Rounds - 1)] == IF j = 0 THEN lr0 ELSE DecryptRound(p, Rounds - 1 - j, lr[j - 1])
    IN lr
Decrypted(p, lr0) == Decrypting(p, lr0)[Rounds - 1]
PermutorE(p, n) == Joined(p, Encrypted(p, Halved(p, n)))
PermutorD(p, n) == Joined(p, Decrypted(p, Halved(p, n)))

\* Mutant: a value outside the range is folded into it.
PermutorFold(p) == [n |-> PermutorE(p, p.stepi) % PermutorLength(p), stepi |-> p.stepi + 1]
\* dns_k_permutor_step()
PermutorStep(p) ==
    LET within(i) == PermutorE(p, i) < PermutorLength(p)
        last == 2 ^ (2 * HalfWidth(p))
        i0 == CHOOSE i \in p.stepi..(p.stepi + last) :
                 within(i) /\ \A j \in p.stepi..(i - 1) : ~within(j)
    IN [n |-> PermutorE(p, i0), stepi |-> i0 + 1]

\* dns_so_mkqid()
MkQid ==
    LET s == PermutorStep(permutor)
    IN /\ Len(drawn) < MaxSteps
       /\ permutor' = [permutor EXCEPT !.stepi = s.stepi]
       /\ drawn' = Append(drawn, s.n + permutor.high + 1 - PermutorLength(permutor))

PermutorInit ==
    /\ permutor \in {[low |-> r[1], high |-> r[2], key |-> k, stepi |-> 0] : r \in Ranges, k \in RoundKeys}
    /\ drawn = <<>>

-----------------------------------------------------------------------------
\* dns_k_shuffle16(), with the four parts s[1..4] of its seed.
ShuffleRound(ab, key, box) ==
    LET a == BitXor(box[BitXor(ab.a, key)], ab.b)
    IN [a |-> a, b |-> BitXor(box[ab.b], a)]
Shuffling(ab0, s, box) ==
    LET ab[i \in 0..4] == IF i = 0 THEN ab0 ELSE ShuffleRound(ab[i - 1], s[i], box)
    IN ab
Shuffled(n, s, box) ==
    LET Result(ab) == ab.a * 2 ^ HalfBits + ab.b
    IN Result(Shuffling([a |-> n % 2 ^ HalfBits, b |-> n \div 2 ^ HalfBits], s, box)[4])

-----------------------------------------------------------------------------
\* The identifiers lie in the range and none comes twice before all of it has
\* been used; then the same sequence begins again (dns_so_mkqid(): an answer
\* to an old query is told from one to a new query by its identifier).
QidsDistinct ==
    LET n == PermutorLength(permutor)
    IN /\ \A i \in DOMAIN drawn : drawn[i] \in permutor.low..permutor.high
       /\ \A i, j \in DOMAIN drawn : i < j => ((drawn[i] = drawn[j]) <=> ((j - i) % n = 0))

PermutorSpec == PermutorInit /\ [][MkQid]_permutorVars
=============================================================================
