-------------------------- MODULE PermutorProofs ---------------------------
(***************************************************************************)
(* The rounds of dns_k_permutor_E() are undone by those of                 *)
(* dns_k_permutor_D(), for every round function and every width.  So no    *)
(* two blocks are encrypted to the same one, and dns_k_permutor_step(),    *)
(* which encrypts a counter and skips what lies outside the range, draws   *)
(* every identifier once before it draws the first one again.              *)
(***************************************************************************)
EXTENDS Permutor, FiniteSetTheorems, WellFoundedInduction, TLAPS

Keyed(p) == p.key \in RoundKeys /\ HalfWidth(p) \in 0..HalfBits

\* dns_k_permutor_F() masks its result to half a block.
LEMMA FIsHalf ==
    ASSUME NEW p, Keyed(p), NEW k \in 0..7, NEW x \in HalvesOf(HalfWidth(p))
    PROVE  PermutorF(p, k, x) \in HalvesOf(HalfWidth(p))
<1> DEFINE m == 2 ^ HalfWidth(p)
<1>1. m \in Nat \ {0} BY PowerAssumption DEF Keyed
<1>2. F(p.key, k, x) \in Nat BY FAssumption DEF Keyed
<1> HIDE DEF m
<1>3. F(p.key, k, x) % m \in 0..(m - 1) BY <1>1, <1>2
<1> QED BY <1>3 DEF PermutorF, HalvesOf, m

\* One round keeps the halves in their width and is undone by the same round
\* of dns_k_permutor_D().
LEMMA RoundInverts ==
    ASSUME NEW p, Keyed(p), NEW k \in 0..7, NEW lr \in Blocks(p)
    PROVE  /\ EncryptRound(p, k, lr) \in Blocks(p)
           /\ DecryptRound(p, k, EncryptRound(p, k, lr)) = lr
<1> DEFINE H == HalvesOf(HalfWidth(p))
           f == PermutorF(p, k, lr.r)
<1>1. lr.l \in H /\ lr.r \in H BY DEF Blocks
<1>2. f \in H BY <1>1, FIsHalf
<1>3. BitXor(lr.l, f) \in H /\ BitXor(BitXor(lr.l, f), f) = lr.l
  BY <1>1, <1>2, XorAssumption DEF Keyed
<1>4. EncryptRound(p, k, lr) = [l |-> lr.r, r |-> BitXor(lr.l, f)] BY DEF EncryptRound
<1>5. DecryptRound(p, k, EncryptRound(p, k, lr)) = [l |-> BitXor(BitXor(lr.l, f), f), r |-> lr.r]
  BY <1>4 DEF DecryptRound
<1>6. lr = [l |-> lr.l, r |-> lr.r] BY DEF Blocks
<1> QED BY <1>1, <1>3, <1>4, <1>5, <1>6 DEF Blocks

\* The rounds of dns_k_permutor_E(), one after the other.
LEMMA EncryptingRounds ==
    ASSUME NEW p, NEW a
    PROVE  /\ Encrypting(p, a)[0] = a
           /\ \A i \in 1..7 : Encrypting(p, a)[i] = EncryptRound(p, i - 1, Encrypting(p, a)[i - 1])
<1> DEFINE a1 == EncryptRound(p, 0, a)
           a2 == EncryptRound(p, 1, a1)
           a3 == EncryptRound(p, 2, a2)
           a4 == EncryptRound(p, 3, a3)
           a5 == EncryptRound(p, 4, a4)
           a6 == EncryptRound(p, 5, a5)
           a7 == EncryptRound(p, 6, a6)
           g == [i \in 0..7 |-> CASE i = 0 -> a [] i = 1 -> a1 [] i = 2 -> a2 [] i = 3 -> a3
                                  [] i = 4 -> a4 [] i = 5 -> a5 [] i = 6 -> a6 [] i = 7 -> a7]
           R(f) == [i \in 0..7 |-> IF i = 0 THEN a ELSE EncryptRound(p, i - 1, f[i - 1])]
<1>1. /\ g[0] = a /\ g[1] = a1 /\ g[2] = a2 /\ g[3] = a3
      /\ g[4] = a4 /\ g[5] = a5 /\ g[6] = a6 /\ g[7] = a7
  OBVIOUS
<1>2. ASSUME NEW i \in 0..7 PROVE g[i] = R(g)[i]
  <2> HIDE DEF g
  <2>1. i \in {0, 1, 2, 3, 4, 5, 6, 7} OBVIOUS
  <2> QED BY <1>1, <2>1
<1>3. g = R(g) BY <1>2
<1>4. \E f : f = R(f) BY <1>3, Zenon
<1> DEFINE e == CHOOSE f : f = R(f)
<1>5. e = R(e)
  <2> HIDE DEF R
  <2> QED BY <1>4
<1>6. Encrypting(p, a) = e BY DEF Encrypting, Rounds
<1> HIDE DEF e
<1>7. e[0] = a BY <1>5
<1>8. ASSUME NEW i \in 1..7 PROVE e[i] = EncryptRound(p, i - 1, e[i - 1]) BY <1>5
<1> QED BY <1>6, <1>7, <1>8

\* The rounds of dns_k_permutor_D(), from the last to the first.
LEMMA DecryptingRounds ==
    ASSUME NEW p, NEW a
    PROVE  /\ Decrypting(p, a)[0] = a
           /\ \A i \in 1..7 : Decrypting(p, a)[i] = DecryptRound(p, 7 - i, Decrypting(p, a)[i - 1])
<1> DEFINE a1 == DecryptRound(p, 6, a)
           a2 == DecryptRound(p, 5, a1)
           a3 == DecryptRound(p, 4, a2)
           a4 == DecryptRound(p, 3, a3)
           a5 == DecryptRound(p, 2, a4)
           a6 == DecryptRound(p, 1, a5)
           a7 == DecryptRound(p, 0, a6)
           g == [i \in 0..7 |-> CASE i = 0 -> a [] i = 1 -> a1 [] i = 2 -> a2 [] i = 3 -> a3
                                  [] i = 4 -> a4 [] i = 5 -> a5 [] i = 6 -> a6 [] i = 7 -> a7]
           R(f) == [i \in 0..7 |-> IF i = 0 THEN a ELSE DecryptRound(p, 8 - 1 - i, f[i - 1])]
<1>1. /\ g[0] = a /\ g[1] = a1 /\ g[2] = a2 /\ g[3] = a3
      /\ g[4] = a4 /\ g[5] = a5 /\ g[6] = a6 /\ g[7] = a7
  OBVIOUS
<1>2. ASSUME NEW i \in 0..7 PROVE g[i] = R(g)[i]
  <2> HIDE DEF g
  <2>1. i \in {0, 1, 2, 3, 4, 5, 6, 7} OBVIOUS
  <2> QED BY <1>1, <2>1
<1>3. g = R(g) BY <1>2
<1>4. \E f : f = R(f) BY <1>3, Zenon
<1> DEFINE e == CHOOSE f : f = R(f)
<1>5. e = R(e)
  <2> HIDE DEF R
  <2> QED BY <1>4
<1>6. Decrypting(p, a) = e BY DEF Decrypting, Rounds
<1> HIDE DEF e
<1>7. e[0] = a BY <1>5
<1>8. ASSUME NEW i \in 1..7 PROVE e[i] = DecryptRound(p, 7 - i, e[i - 1])
  <2>1. 8 - 1 - i = 7 - i OBVIOUS
  <2> QED BY <1>5, <2>1
<1> QED BY <1>6, <1>7, <1>8

-----------------------------------------------------------------------------
\* dns_k_permutor_D() undoes what dns_k_permutor_E() does to a block, whatever
\* the round function, and leaves it a block.
THEOREM DecryptionInverts ==
    ASSUME NEW p, Keyed(p), NEW a \in Blocks(p)
    PROVE  Encrypted(p, a) \in Blocks(p) /\ Decrypted(p, Encrypted(p, a)) = a
<1> DEFINE e == Encrypting(p, a)
           d == Decrypting(p, e[7])
<1>1. e[0] = a /\ \A i \in 1..7 : e[i] = EncryptRound(p, i - 1, e[i - 1]) BY EncryptingRounds
<1>2. d[0] = e[7] /\ \A i \in 1..7 : d[i] = DecryptRound(p, 7 - i, d[i - 1]) BY DecryptingRounds
<1> HIDE DEF e, d
<1>3. ASSUME NEW i \in 1..7, e[i - 1] \in Blocks(p)
      PROVE  e[i] \in Blocks(p) /\ DecryptRound(p, i - 1, e[i]) = e[i - 1]
  <2>1. i - 1 \in 0..7 OBVIOUS
  <2> QED BY <1>1, <1>3, <2>1, RoundInverts
<1>4. /\ e[1] \in Blocks(p) /\ DecryptRound(p, 0, e[1]) = e[0]
      /\ e[2] \in Blocks(p) /\ DecryptRound(p, 1, e[2]) = e[1]
      /\ e[3] \in Blocks(p) /\ DecryptRound(p, 2, e[3]) = e[2]
      /\ e[4] \in Blocks(p) /\ DecryptRound(p, 3, e[4]) = e[3]
  <2>1. e[1] \in Blocks(p) /\ DecryptRound(p, 0, e[1]) = e[0] BY <1>1, <1>3
  <2>2. e[2] \in Blocks(p) /\ DecryptRound(p, 1, e[2]) = e[1] BY <2>1, <1>3
  <2>3. e[3] \in Blocks(p) /\ DecryptRound(p, 2, e[3]) = e[2] BY <2>2, <1>3
  <2>4. e[4] \in Blocks(p) /\ DecryptRound(p, 3, e[4]) = e[3] BY <2>3, <1>3
  <2> QED BY <2>1, <2>2, <2>3, <2>4
<1>5. /\ e[5] \in Blocks(p) /\ DecryptRound(p, 4, e[5]) = e[4]
      /\ e[6] \in Blocks(p) /\ DecryptRound(p, 5, e[6]) = e[5]
      /\ e[7] \in Blocks(p) /\ DecryptRound(p, 6, e[7]) = e[6]
  <2>1. e[5] \in Blocks(p) /\ DecryptRound(p, 4, e[5]) = e[4] BY <1>4, <1>3
  <2>2. e[6] \in Blocks(p) /\ DecryptRound(p, 5, e[6]) = e[5] BY <2>1, <1>3
  <2>3. e[7] \in Blocks(p) /\ DecryptRound(p, 6, e[7]) = e[6] BY <2>2, <1>3
  <2> QED BY <2>1, <2>2, <2>3
<1>6. d[1] = e[6] BY <1>2, <1>5
<1>7. d[2] = e[5] BY <1>2, <1>5, <1>6
<1>8. d[3] = e[4] BY <1>2, <1>5, <1>7
<1>9. d[4] = e[3] BY <1>2, <1>4, <1>8
<1>10. d[5] = e[2] BY <1>2, <1>4, <1>9
<1>11. d[6] = e[1] BY <1>2, <1>4, <1>10
<1>12. d[7] = a BY <1>1, <1>2, <1>4, <1>11
<1>13. Encrypted(p, a) = e[7] BY DEF Encrypted, Rounds, e
<1>14. Decrypted(p, e[7]) = d[7] BY DEF Decrypted, Rounds, d
<1> QED BY <1>5, <1>12, <1>13, <1>14

\* A number below the square of M is given by its two digits in base M, and
\* two digits by their number: the halves that dns_k_permutor_E() takes of its
\* argument, and the result it puts together.
LEMMA DigitsDetermine ==
    ASSUME NEW M \in Nat \ {0}, NEW m \in 0..(M * M - 1), NEW n \in 0..(M * M - 1),
           (m \div M) % M = (n \div M) % M, m % M = n % M
    PROVE  m = n
<1>1. ASSUME NEW x \in 0..(M * M - 1) PROVE x = M * (x \div M) + (x % M) /\ x \div M \in 0..(M - 1)
  OBVIOUS
<1>2. ASSUME NEW y \in 0..(M - 1) PROVE y % M = y
  OBVIOUS
<1> QED BY <1>1, <1>2
LEMMA DigitsDetermined ==
    ASSUME NEW M \in Nat \ {0}, NEW l \in 0..(M - 1), NEW r \in 0..(M - 1),
           NEW k \in 0..(M - 1), NEW s \in 0..(M - 1), l * M + r = k * M + s
    PROVE  l = k /\ r = s
<1>1. ASSUME NEW x \in Nat, NEW y \in Nat, x < y PROVE x * M + M <= y * M
  <2>1. PICK z \in Nat : y = x + 1 + z BY <1>1
  <2> QED BY <2>1
<1>2. ~(l < k) BY <1>1
<1>3. ~(k < l) BY <1>1
<1> QED BY <1>2, <1>3

Size(p) == 2 ^ HalfWidth(p)

LEMMA SizeIsPositive ==
    ASSUME NEW p, Keyed(p)
    PROVE  Size(p) \in Nat \ {0} /\ 2 ^ (2 * HalfWidth(p)) = Size(p) * Size(p)
BY PowerAssumption DEF Keyed, Size

\* What dns_k_permutor_E() takes of its argument is a block.
LEMMA HalvedIsBlock ==
    ASSUME NEW p, Keyed(p), NEW n \in Nat
    PROVE  Halved(p, n) \in Blocks(p)
<1>1. Size(p) \in Nat \ {0} BY SizeIsPositive
<1>2. ASSUME NEW x \in Int PROVE x % Size(p) \in 0..(Size(p) - 1) BY <1>1
<1>3. n \div Size(p) \in Int BY <1>1
<1>4. Halved(p, n) = [l |-> (n \div Size(p)) % Size(p), r |-> n % Size(p)] BY DEF Halved, Size
<1>5. HalvesOf(HalfWidth(p)) = 0..(Size(p) - 1) BY DEF HalvesOf, Size
<1>6. /\ (n \div Size(p)) % Size(p) \in HalvesOf(HalfWidth(p))
      /\ n % Size(p) \in HalvesOf(HalfWidth(p))
  BY <1>2, <1>3, <1>5
<1> QED BY <1>4, <1>6 DEF Blocks

\* dns_k_permutor_E() gives a number within the block, and no two counters of
\* one pass through the block give the same.
THEOREM NumbersApart ==
    ASSUME NEW p, Keyed(p)
    PROVE  /\ \A n \in Nat : PermutorE(p, n) \in 0..(Size(p) * Size(p) - 1)
           /\ \A m, n \in 0..(Size(p) * Size(p) - 1) : PermutorE(p, m) = PermutorE(p, n) => m = n
<1> DEFINE M == Size(p)
<1>1. M \in Nat \ {0} BY SizeIsPositive
<1>2. \A a \in Blocks(p) : Joined(p, a) = a.l * M + a.r BY DEF Joined, Size
<1>3. \A a \in Blocks(p) : a.l \in 0..(M - 1) /\ a.r \in 0..(M - 1) /\ a = [l |-> a.l, r |-> a.r]
  <2>1. HalvesOf(HalfWidth(p)) = 0..(M - 1) BY DEF HalvesOf, Size
  <2>2. \A a \in Blocks(p) : a.l \in HalvesOf(HalfWidth(p)) /\ a.r \in HalvesOf(HalfWidth(p))
    BY DEF Blocks
  <2>3. \A a \in Blocks(p) : a = [l |-> a.l, r |-> a.r] BY DEF Blocks
  <2> QED BY <2>1, <2>2, <2>3
<1>4. \A n \in Nat : Encrypted(p, Halved(p, n)) \in Blocks(p) BY HalvedIsBlock, DecryptionInverts
<1> HIDE DEF M
<1>5. ASSUME NEW n \in Nat PROVE PermutorE(p, n) \in 0..(M * M - 1)
  <2> DEFINE a == Encrypted(p, Halved(p, n))
  <2>1. a.l \in 0..(M - 1) /\ a.r \in 0..(M - 1) BY <1>3, <1>4
  <2>2. PermutorE(p, n) = a.l * M + a.r BY <1>2, <1>4 DEF PermutorE
  <2> HIDE DEF a
  <2>3. \A x \in 0..(M - 1) : x * M <= (M - 1) * M /\ x * M >= 0 BY <1>1
  <2> QED BY <1>1, <2>1, <2>2, <2>3
<1>6. ASSUME NEW m \in 0..(M * M - 1), NEW n \in 0..(M * M - 1), PermutorE(p, m) = PermutorE(p, n)
      PROVE  m = n
  <2> DEFINE a == Encrypted(p, Halved(p, m))
             b == Encrypted(p, Halved(p, n))
  <2>1. m \in Nat /\ n \in Nat BY <1>1
  <2>2. a \in Blocks(p) /\ b \in Blocks(p) BY <2>1, <1>4
  <2>3. a.l * M + a.r = b.l * M + b.r BY <2>2, <1>2, <1>6 DEF PermutorE
  <2>4. a.l = b.l /\ a.r = b.r
    <3> HIDE DEF a, b
    <3> QED BY <1>1, <1>3, <2>2, <2>3, DigitsDetermined
  <2>5. a = b BY <1>3, <2>2, <2>4
  <2>6. Halved(p, m) = Halved(p, n) BY <2>1, <2>5, HalvedIsBlock, DecryptionInverts
  <2>7. (m \div M) % M = (n \div M) % M /\ m % M = n % M BY <2>6 DEF Halved, M, Size
  <2> QED BY <1>1, <2>7, DigitsDetermine, Zenon
<1> QED BY <1>5, <1>6 DEF M

-----------------------------------------------------------------------------
\* The converse of RoundInverts.
LEMMA RoundInvertsBack ==
    ASSUME NEW p, Keyed(p), NEW k \in 0..7, NEW lr \in Blocks(p)
    PROVE  /\ DecryptRound(p, k, lr) \in Blocks(p)
           /\ EncryptRound(p, k, DecryptRound(p, k, lr)) = lr
<1> DEFINE H == HalvesOf(HalfWidth(p))
           f == PermutorF(p, k, lr.l)
<1>1. lr.l \in H /\ lr.r \in H BY DEF Blocks
<1>2. f \in H BY <1>1, FIsHalf
<1>3. BitXor(lr.r, f) \in H /\ BitXor(BitXor(lr.r, f), f) = lr.r
  BY <1>1, <1>2, XorAssumption DEF Keyed
<1>4. DecryptRound(p, k, lr) = [l |-> BitXor(lr.r, f), r |-> lr.l] BY DEF DecryptRound
<1>5. EncryptRound(p, k, DecryptRound(p, k, lr)) = [l |-> lr.l, r |-> BitXor(BitXor(lr.r, f), f)]
  BY <1>4 DEF EncryptRound
<1>6. lr = [l |-> lr.l, r |-> lr.r] BY DEF Blocks
<1> QED BY <1>1, <1>3, <1>4, <1>5, <1>6 DEF Blocks

\* Every block is the encryption of one.
LEMMA EncryptionInverts ==
    ASSUME NEW p, Keyed(p), NEW a \in Blocks(p)
    PROVE  Decrypted(p, a) \in Blocks(p) /\ Encrypted(p, Decrypted(p, a)) = a
<1> DEFINE d == Decrypting(p, a)
           e == Encrypting(p, d[7])
<1>1. e[0] = d[7] /\ \A i \in 1..7 : e[i] = EncryptRound(p, i - 1, e[i - 1]) BY EncryptingRounds
<1>2. d[0] = a /\ \A i \in 1..7 : d[i] = DecryptRound(p, 7 - i, d[i - 1]) BY DecryptingRounds
<1> HIDE DEF e, d
<1>3. ASSUME NEW i \in 1..7, d[i - 1] \in Blocks(p)
      PROVE  d[i] \in Blocks(p) /\ EncryptRound(p, 7 - i, d[i]) = d[i - 1]
  <2>1. 7 - i \in 0..7 OBVIOUS
  <2> QED BY <1>2, <1>3, <2>1, RoundInvertsBack
<1>4. /\ d[1] \in Blocks(p) /\ EncryptRound(p, 6, d[1]) = d[0]
      /\ d[2] \in Blocks(p) /\ EncryptRound(p, 5, d[2]) = d[1]
      /\ d[3] \in Blocks(p) /\ EncryptRound(p, 4, d[3]) = d[2]
      /\ d[4] \in Blocks(p) /\ EncryptRound(p, 3, d[4]) = d[3]
  <2>1. d[1] \in Blocks(p) /\ EncryptRound(p, 6, d[1]) = d[0] BY <1>2, <1>3
  <2>2. d[2] \in Blocks(p) /\ EncryptRound(p, 5, d[2]) = d[1] BY <2>1, <1>3
  <2>3. d[3] \in Blocks(p) /\ EncryptRound(p, 4, d[3]) = d[2] BY <2>2, <1>3
  <2>4. d[4] \in Blocks(p) /\ EncryptRound(p, 3, d[4]) = d[3] BY <2>3, <1>3
  <2> QED BY <2>1, <2>2, <2>3, <2>4
<1>5. /\ d[5] \in Blocks(p) /\ EncryptRound(p, 2, d[5]) = d[4]
      /\ d[6] \in Blocks(p) /\ EncryptRound(p, 1, d[6]) = d[5]
      /\ d[7] \in Blocks(p) /\ EncryptRound(p, 0, d[7]) = d[6]
  <2>1. d[5] \in Blocks(p) /\ EncryptRound(p, 2, d[5]) = d[4] BY <1>4, <1>3
  <2>2. d[6] \in Blocks(p) /\ EncryptRound(p, 1, d[6]) = d[5] BY <2>1, <1>3
  <2>3. d[7] \in Blocks(p) /\ EncryptRound(p, 0, d[7]) = d[6] BY <2>2, <1>3
  <2> QED BY <2>1, <2>2, <2>3
<1>6. e[1] = d[6] BY <1>1, <1>5
<1>7. e[2] = d[5] BY <1>1, <1>5, <1>6
<1>8. e[3] = d[4] BY <1>1, <1>5, <1>7
<1>9. e[4] = d[3] BY <1>1, <1>4, <1>8
<1>10. e[5] = d[2] BY <1>1, <1>4, <1>9
<1>11. e[6] = d[1] BY <1>1, <1>4, <1>10
<1>12. e[7] = a BY <1>1, <1>2, <1>4, <1>11
<1>13. Decrypted(p, a) = d[7] BY DEF Decrypted, Rounds, d
<1>14. Encrypted(p, d[7]) = e[7] BY DEF Encrypted, Rounds, e
<1> QED BY <1>5, <1>12, <1>13, <1>14

Stretch(from, M) == from..(from + M * M)
HasDigits(i, M, l, r) == (i \div M) % M = l /\ i % M = r

\* Every stretch of M * M numbers has one with the digits l and r.
LEMMA DigitsAnywhere ==
    ASSUME NEW M \in Nat \ {0}, NEW l \in 0..(M - 1), NEW r \in 0..(M - 1), NEW from \in Nat
    PROVE  \E i \in Stretch(from, M) : HasDigits(i, M, l, r)
<1> DEFINE N == M * M
           d == l * M + r - from
           k == 0 - (d \div N)
           q == l + k * M
           i == from + (d % N)
<1>1. N \in Nat \ {0} /\ d \in Int OBVIOUS
<1>2. d % N \in 0..(N - 1) /\ d = N * (d \div N) + (d % N) /\ k \in Int
  <2> HIDE DEF N, d
  <2> QED BY <1>1
<1>3. i \in from..(from + N) BY <1>1, <1>2
<1> HIDE DEF k
<1>4. q \in Int /\ q % M = l BY <1>2
<1>5. i = l * M + r + k * N
  <2>1. N * (d \div N) = 0 - k * N
    <3> HIDE DEF N, d
    <3> QED BY <1>1 DEF k
  <2> HIDE DEF N
  <2> QED BY <1>1, <1>2, <2>1
<1>6. i = q * M + r
  <2> HIDE DEF i
  <2> QED BY <1>2, <1>5
<1> HIDE DEF i, q
<1>7. (q * M + r) \div M = q /\ (q * M + r) % M = r BY <1>4
<1>8. (i \div M) % M = l /\ i % M = r BY <1>4, <1>6, <1>7, Zenon
<1> QED BY <1>3, <1>8, Zenon DEF Stretch, HasDigits

\* In every stretch of the counter as long as the block some value is encrypted
\* to 0, so the loop of dns_k_permutor_step() ends.
LEMMA SomeIsZero ==
    ASSUME NEW p, Keyed(p), NEW from \in Nat
    PROVE  \E i \in from..(from + Size(p) * Size(p)) : PermutorE(p, i) = 0
<1> DEFINE M == Size(p)
           zero == [l |-> 0, r |-> 0]
           a == Decrypted(p, zero)
<1>1. M \in Nat \ {0} BY SizeIsPositive
<1>2. 0 \in HalvesOf(HalfWidth(p)) BY <1>1 DEF HalvesOf, Size
<1>3. zero \in Blocks(p) BY <1>2 DEF Blocks
<1>4. a \in Blocks(p) /\ Encrypted(p, a) = zero BY <1>3, EncryptionInverts
<1> HIDE DEF a
<1>5. a.l \in HalvesOf(HalfWidth(p)) /\ a.r \in HalvesOf(HalfWidth(p)) /\ a = [l |-> a.l, r |-> a.r]
  BY <1>4 DEF Blocks
<1>6. a.l \in 0..(M - 1) /\ a.r \in 0..(M - 1) BY <1>5 DEF HalvesOf, Size
<1> HIDE DEF M
<1>7. PICK i \in Stretch(from, M) : HasDigits(i, M, a.l, a.r) BY <1>1, <1>6, DigitsAnywhere
<1>8. Halved(p, i) = a BY <1>5, <1>7 DEF Halved, HasDigits, M, Size
<1>9. PermutorE(p, i) = Joined(p, zero) BY <1>4, <1>8 DEF PermutorE
<1>10. Joined(p, zero) = 0 * M + 0 BY DEF Joined, M, Size
<1>11. PermutorE(p, i) = 0 BY <1>1, <1>9, <1>10
<1> QED BY <1>7, <1>11 DEF M, Stretch

-----------------------------------------------------------------------------
\* A set of numbers that is not empty has a least one.
LEMMA LeastNumber ==
    ASSUME NEW S, S \subseteq Nat, S # {}
    PROVE  \E i \in S : \A j \in S : i <= j
<1>1. PICK i \in S : \A j \in S : ~(<<j, i>> \in OpToRel(<, Nat))
  BY NatLessThanWellFounded, WFMin, Zenon
<1>2. ASSUME NEW j \in S PROVE i <= j
  <2>1. i \in Nat /\ j \in Nat OBVIOUS
  <2>2. <<j, i>> \in OpToRel(<, Nat) <=> j < i BY <2>1 DEF OpToRel
  <2>3. ~(j < i) BY <1>1, <2>2, Zenon
  <2> QED BY <2>1, <2>3
<1> QED BY <1>2

\* dns_k_permutor_step() returns what the counter it ends with is encrypted to,
\* within the range, and passes only values outside of it.
LEMMA StepEncryptsCounter ==
    ASSUME NEW p, Keyed(p), p.stepi \in Nat, PermutorLength(p) \in Nat \ {0}
    PROVE  \E c \in Nat : /\ c >= p.stepi /\ PermutorE(p, c) \in 0..(PermutorLength(p) - 1)
                          /\ \A x \in p.stepi..(c - 1) : ~(PermutorE(p, x) < PermutorLength(p))
                          /\ PermutorStep(p) = [n |-> PermutorE(p, c), stepi |-> c + 1]
<1> DEFINE len == PermutorLength(p)
           from == p.stepi
           last == Size(p) * Size(p)
           S == {i \in Nat : i >= from /\ PermutorE(p, i) < len}
           Q(i) == PermutorE(p, i) < len /\ \A j \in from..(i - 1) : ~(PermutorE(p, j) < len)
           c == CHOOSE i \in from..(from + last) : Q(i)
<1>1. last \in Nat BY SizeIsPositive
<1>2. PICK z \in from..(from + last) : PermutorE(p, z) = 0 BY SomeIsZero
<1>3. z \in S BY <1>1, <1>2
<1>4. PICK i \in S : \A j \in S : i <= j BY <1>3, LeastNumber, Zenon
<1>5. i \in from..(from + last) BY <1>1, <1>2, <1>3, <1>4
<1>6. Q(i)
  <2>1. ASSUME NEW j \in from..(i - 1), PermutorE(p, j) < len PROVE FALSE
    <3>1. j \in S BY <2>1
    <3> QED BY <1>4, <3>1
  <2> QED BY <2>1
<1>7. c \in from..(from + last) /\ Q(c)
  <2> HIDE DEF Q, last
  <2> QED BY <1>5, <1>6
<1>8. 2 ^ (2 * HalfWidth(p)) = last BY SizeIsPositive
<1>9. PermutorStep(p) = [n |-> PermutorE(p, c), stepi |-> c + 1] BY <1>8, Zenon DEF PermutorStep
<1> HIDE DEF c, last
<1>10. c \in Nat /\ c >= p.stepi /\ PermutorE(p, c) < len BY <1>1, <1>7
<1>11. PermutorE(p, c) \in Nat
  <2>1. PermutorE(p, c) \in 0..(Size(p) * Size(p) - 1) BY <1>10, NumbersApart
  <2> QED BY <2>1, SizeIsPositive
<1>12. \A x \in from..(c - 1) : ~(PermutorE(p, x) < len)
  BY <1>7
<1> QED BY <1>9, <1>10, <1>11, <1>12, SMTT(30)

\* The counter does not enter into the encryption.
LEMMA CounterIsNoKey ==
    ASSUME NEW p, NEW q, p.key = q.key, p.low = q.low, p.high = q.high
    PROVE  /\ HalfWidth(p) = HalfWidth(q) /\ PermutorLength(p) = PermutorLength(q)
           /\ \A n : PermutorE(p, n) = PermutorE(q, n)
<1>1. PermutorLength(p) = PermutorLength(q) BY DEF PermutorLength
<1>2. HalfWidth(p) = HalfWidth(q) BY <1>1 DEF HalfWidth
<1>3. \A k, lr : EncryptRound(p, k, lr) = EncryptRound(q, k, lr) BY <1>2 DEF EncryptRound, PermutorF
<1>4. ASSUME NEW a PROVE Encrypted(p, a) = Encrypted(q, a)
  <2> DEFINE d == Encrypting(p, a)
             e == Encrypting(q, a)
  <2>1. d[0] = a /\ \A i \in 1..7 : d[i] = EncryptRound(p, i - 1, d[i - 1]) BY EncryptingRounds
  <2>2. e[0] = a /\ \A i \in 1..7 : e[i] = EncryptRound(q, i - 1, e[i - 1]) BY EncryptingRounds
  <2> HIDE DEF d, e
  <2>3. ASSUME NEW i \in 1..7, d[i - 1] = e[i - 1] PROVE d[i] = e[i] BY <2>1, <2>2, <2>3, <1>3
  <2>4. d[1] = e[1] BY <2>1, <2>2, <2>3
  <2>5. d[2] = e[2] BY <2>3, <2>4
  <2>6. d[3] = e[3] BY <2>3, <2>5
  <2>7. d[4] = e[4] BY <2>3, <2>6
  <2>8. d[5] = e[5] BY <2>3, <2>7
  <2>9. d[6] = e[6] BY <2>3, <2>8
  <2>10. d[7] = e[7] BY <2>3, <2>9
  <2> QED BY <2>10 DEF Encrypted, Rounds, d, e
<1>5. \A n : Halved(p, n) = Halved(q, n) BY <1>2 DEF Halved
<1>6. \A lr : Joined(p, lr) = Joined(q, lr) BY <1>2 DEF Joined
<1> QED BY <1>1, <1>2, <1>4, <1>5, <1>6 DEF PermutorE

-----------------------------------------------------------------------------
(* The block seen as a cycle, and a walk around it.                         *)

\* The digits of l * M + r.
LEMMA DigitsOf ==
    ASSUME NEW M \in Nat \ {0}, NEW l \in 0..(M - 1), NEW r \in 0..(M - 1)
    PROVE  /\ l * M + r \in 0..(M * M - 1)
           /\ HasDigits(l * M + r, M, l, r)
<1>1. l * M >= 0 /\ l * M <= (M - 1) * M
  OBVIOUS
<1>2. l * M + r \in 0..(M * M - 1)
  BY <1>1
<1>3. (l * M + r) \div M = l /\ (l * M + r) % M = r
  OBVIOUS
<1>4. l % M = l
  OBVIOUS
<1>5. ((l * M + r) \div M) % M = l
  BY <1>3, <1>4, Zenon
<1> QED BY <1>2, <1>3, <1>5, Zenon DEF HasDigits

\* The digits of a number come again after M * M.
LEMMA DigitsAgain ==
    ASSUME NEW M \in Nat \ {0}, NEW x \in Nat
    PROVE  /\ ((x + M * M) \div M) % M = (x \div M) % M
           /\ (x + M * M) % M = x % M
<1> DEFINE q == x \div M
           r == x % M
<1>1. q \in Nat /\ r \in 0..(M - 1) /\ x = q * M + r
  OBVIOUS
<1> HIDE DEF q, r
<1>2. x + M * M = (q + M) * M + r
  BY <1>1
<1>3. ((q + M) * M + r) \div M = q + M /\ ((q + M) * M + r) % M = r
  <2> DEFINE s == q + M
  <2>1. s \in Nat
    BY <1>1
  <2> HIDE DEF s
  <2>2. (s * M + r) \div M = s /\ (s * M + r) % M = r
    BY <1>1, <2>1
  <2> QED BY <2>2 DEF s
<1>4. (q + M) % M = q % M
  <2> DEFINE a == q \div M
             b == q % M
             d == a + 1
  <2>1. a \in Nat /\ b \in 0..(M - 1) /\ q = a * M + b /\ d \in Nat
    BY <1>1
  <2>2. q + M = d * M + b
    <3> HIDE DEF a, b
    <3> QED BY <2>1
  <2> HIDE DEF a, b, d
  <2>3. (d * M + b) % M = b
    BY <2>1
  <2>4. (q + M) % M = b
    BY <2>2, <2>3, Zenon
  <2> QED BY <2>4 DEF b
<1>5. (x + M * M) \div M = q + M /\ (x + M * M) % M = r
  BY <1>2, <1>3, Zenon
<1>6. ((x + M * M) \div M) % M = q % M
  BY <1>4, <1>5, Zenon
<1> QED BY <1>5, <1>6, Zenon DEF q, r

\* A function of the counter that runs through the numbers below B, each once,
\* and then begins again; those below len are wanted.
Cycles(e, B, len) ==
    /\ B \in Nat /\ len \in 1..B /\ e \in [Nat -> 0..(B - 1)]
    /\ \A x, y \in 0..(B - 1) : e[x] = e[y] => x = y
    /\ \A v \in 0..(B - 1) : \E x \in 0..(B - 1) : e[x] = v
    /\ \A x \in Nat : e[x + B] = e[x]

\* idx are the first L counters with a wanted number, all below next: the first
\* len lie in the first pass, and every other one is one of the pass before.
Walked(e, B, len, idx, L, next) ==
    /\ L \in Nat /\ next \in Nat /\ idx \in [1..L -> Nat]
    /\ \A k \in 1..L : idx[k] < next /\ e[idx[k]] < len
    /\ \A x \in 0..(next - 1) : e[x] < len => \E k \in 1..L : idx[k] = x
    /\ \A j, k \in 1..L : j < k => idx[j] < idx[k]
    /\ \A k \in 1..L : k <= len <=> idx[k] < B
    /\ \A k \in 1..L : k > len => idx[k] = idx[k - len] + B
Further(idx, L, c) == [k \in 1..(L + 1) |-> IF k <= L THEN idx[k] ELSE c]

\* What is numbered in a walk.
LEMMA WalkTypes ==
    ASSUME NEW e, NEW B, NEW len, NEW idx, NEW L, NEW next,
           Cycles(e, B, len), Walked(e, B, len, idx, L, next)
    PROVE  /\ B \in Nat /\ len \in Nat /\ len >= 1 /\ len <= B /\ L \in Nat /\ next \in Nat
           /\ \A x \in Nat : e[x] \in 0..(B - 1) /\ e[x] \in Nat
           /\ idx \in [1..L -> Nat]
           /\ \A k \in 1..L : k \in Nat /\ idx[k] \in Nat /\ idx[k] < next /\ e[idx[k]] < len
<1>1. B \in Nat /\ len \in 1..B /\ e \in [Nat -> 0..(B - 1)]
  BY Zenon DEF Cycles
<1>2. B \in Nat /\ len \in Nat /\ len >= 1 /\ len <= B /\ \A x \in 0..(B - 1) : x \in Nat
  BY <1>1
<1>3. \A x \in Nat : e[x] \in 0..(B - 1) /\ e[x] \in Nat
  BY <1>1, <1>2
<1>4. L \in Nat /\ next \in Nat /\ idx \in [1..L -> Nat]
      /\ \A k \in 1..L : idx[k] < next /\ e[idx[k]] < len
  BY Zenon DEF Walked
<1>5. \A k \in 1..L : k \in Nat /\ idx[k] \in Nat
  BY <1>4
<1> QED BY <1>2, <1>3, <1>4, <1>5

\* As long as fewer than len numbers were drawn one is left in the first pass.
LEMMA PassHasMore ==
    ASSUME NEW e, NEW B, NEW len, NEW idx, NEW L, NEW next,
           Cycles(e, B, len), Walked(e, B, len, idx, L, next), L < len
    PROVE  \E x \in 0..(B - 1) : x >= next /\ e[x] < len
<1> SUFFICES ASSUME \A x \in 0..(B - 1) : e[x] < len => x < next PROVE FALSE
  BY DEF Cycles, Walked
<1>1. L \in Nat /\ next \in Nat /\ len \in Nat /\ B \in Nat /\ len <= B /\ len >= 1
  BY WalkTypes
<1>2. ASSUME NEW v \in 0..(len - 1) PROVE \E k \in 1..L : e[idx[k]] = v
  <2>1. v \in 0..(B - 1) /\ v < len
    BY <1>1
  <2>2. PICK x \in 0..(B - 1) : e[x] = v
    BY <2>1 DEF Cycles
  <2>3. x \in 0..(next - 1)
    BY <1>1, <2>1, <2>2
  <2>4. PICK k \in 1..L : idx[k] = x
    BY <2>1, <2>2, <2>3, Zenon DEF Walked
  <2> QED BY <2>2, <2>4
<1> DEFINE f == [v \in 0..(len - 1) |-> CHOOSE k \in 1..L : e[idx[k]] = v]
<1>3. \A v \in 0..(len - 1) : f[v] \in 1..L /\ e[idx[f[v]]] = v
  BY <1>2
<1>4. f \in [0..(len - 1) -> 1..L]
  BY <1>3
<1> HIDE DEF f
<1>5. IsFiniteSet(0..(len - 1)) /\ Cardinality(0..(len - 1)) = len
  <2>1. 0 \in Int /\ len - 1 \in Int /\ ~(0 > len - 1) /\ (len - 1) - 0 + 1 = len
    BY <1>1
  <2>2. Cardinality(0..(len - 1)) = IF 0 > len - 1 THEN 0 ELSE (len - 1) - 0 + 1
    BY <2>1, FS_Interval
  <2>3. IsFiniteSet(0..(len - 1))
    BY <2>1, FS_Interval
  <2> QED BY <2>1, <2>2, <2>3, Zenon
<1>6. IsFiniteSet(1..L) /\ Cardinality(1..L) = L
  <2>1. 1 \in Int /\ L \in Int /\ L - 1 + 1 = L /\ (1 > L => L = 0)
    BY <1>1
  <2> QED BY <2>1, FS_Interval
<1>7. PICK x, y \in 0..(len - 1) : x # y /\ f[x] = f[y]
  BY <1>4, <1>5, <1>6, FS_PigeonHole, Zenon
<1> QED BY <1>3, <1>7

\* Once len numbers were drawn none is left in the first pass.
LEMMA PassIsOver ==
    ASSUME NEW e, NEW B, NEW len, NEW idx, NEW L, NEW next, NEW c \in Nat,
           Cycles(e, B, len), Walked(e, B, len, idx, L, next),
           c >= next, e[c] < len, L >= len
    PROVE  c >= B
<1> SUFFICES ASSUME c < B PROVE FALSE
  BY DEF Cycles
<1>1. /\ L \in Nat /\ next \in Nat /\ len \in Nat /\ B \in Nat /\ len <= B /\ len >= 1
      /\ \A x \in Nat : e[x] \in Nat
      /\ \A k \in 1..L : k \in Nat /\ idx[k] \in Nat /\ idx[k] < next /\ e[idx[k]] < len
  BY WalkTypes
<1>2. \A k \in 1..L : idx[k] \in 0..(B - 1) /\ idx[k] # c /\ e[idx[k]] \in 0..(len - 1)
  BY <1>1
<1>3. ASSUME NEW j \in 1..L, NEW k \in 1..L, j # k PROVE idx[j] # idx[k]
  <2>1. j < k => idx[j] < idx[k]
    BY DEF Walked
  <2>2. k < j => idx[k] < idx[j]
    BY DEF Walked
  <2> QED BY <1>1, <1>3, <2>1, <2>2
<1> DEFINE f == [k \in 0..L |-> IF k = 0 THEN e[c] ELSE e[idx[k]]]
<1>4. f[0] = e[c] /\ e[c] \in 0..(len - 1) /\ \A k \in 1..L : f[k] = e[idx[k]]
  BY <1>1
<1>5. \A k \in 0..L : k = 0 \/ k \in 1..L
  BY <1>1
<1>6. f \in [0..L -> 0..(len - 1)]
  BY <1>2, <1>4, <1>5
<1> HIDE DEF f
<1>7. IsFiniteSet(0..L) /\ Cardinality(0..L) = L + 1
  <2>1. 0 \in Int /\ L \in Int /\ ~(0 > L) /\ L - 0 + 1 = L + 1
    BY <1>1
  <2> QED BY <2>1, FS_Interval
<1>8. IsFiniteSet(0..(len - 1)) /\ Cardinality(0..(len - 1)) = len
  <2>1. 0 \in Int /\ len - 1 \in Int /\ ~(0 > len - 1) /\ (len - 1) - 0 + 1 = len
    BY <1>1
  <2>2. Cardinality(0..(len - 1)) = IF 0 > len - 1 THEN 0 ELSE (len - 1) - 0 + 1
    BY <2>1, FS_Interval
  <2>3. IsFiniteSet(0..(len - 1))
    BY <2>1, FS_Interval
  <2> QED BY <2>1, <2>2, <2>3
<1>9. len < L + 1
  BY <1>1
<1>10. PICK x, y \in 0..L : x # y /\ f[x] = f[y]
  BY <1>6, <1>7, <1>8, <1>9, FS_PigeonHole, Zenon
<1>11. \A u, v \in 0..(B - 1) : e[u] = e[v] => u = v
  BY DEF Cycles
<1>12. c \in 0..(B - 1)
  BY <1>1
<1> QED BY <1>2, <1>3, <1>4, <1>5, <1>10, <1>11, <1>12

\* The next number drawn is the first one, or that of the pass before.
LEMMA NextIsOneRoundLater ==
    ASSUME NEW e, NEW B, NEW len, NEW idx, NEW L, NEW next, NEW c \in Nat,
           Cycles(e, B, len), Walked(e, B, len, idx, L, next),
           c >= next, e[c] < len, \A x \in next..(c - 1) : ~(e[x] < len), L >= len
    PROVE  c = idx[(L + 1) - len] + B
<1> DEFINE k == (L + 1) - len
<1>1. /\ L \in Nat /\ next \in Nat /\ len \in Nat /\ B \in Nat /\ len >= 1
      /\ \A x \in Nat : e[x] \in Nat
      /\ \A j \in 1..L : j \in Nat /\ idx[j] \in Nat /\ idx[j] < next /\ e[idx[j]] < len
  BY WalkTypes
<1>k. k \in 1..L /\ idx[k] \in Nat
  <2>1. k \in 1..L
    BY <1>1
  <2> QED BY <1>1, <2>1
<1>2. c >= B
  BY PassIsOver
<1> HIDE DEF k
<1>3. k + len = L + 1
  BY <1>1 DEF k
<1>4. ASSUME NEW i \in 1..L, NEW j \in 1..L, idx[i] = idx[j] PROVE i = j
  <2>1. (i < j => idx[i] < idx[j]) /\ (j < i => idx[j] < idx[i])
    BY DEF Walked
  <2> QED BY <1>1, <1>4, <2>1
<1>5. ~(c > idx[k] + B)
  <2> SUFFICES ASSUME c > idx[k] + B PROVE FALSE
    OBVIOUS
  <2> DEFINE x == idx[k] + B
  <2>1. x \in Nat /\ x < c /\ e[x] < len /\ x >= B
    <3>1. e[idx[k] + B] = e[idx[k]]
      BY <1>k, Zenon DEF Cycles
    <3> QED BY <1>k, <1>1, <3>1
  <2> HIDE DEF x
  <2>2. x < next
    BY <1>1, <2>1
  <2>3. PICK m \in 1..L : idx[m] = x
    BY <1>1, <2>1, <2>2 DEF Walked
  <2>4. m > len
    BY <1>1, <2>1, <2>3 DEF Walked
  <2>5. m - len \in 1..L /\ idx[m] = idx[m - len] + B
    BY <1>1, <2>4 DEF Walked
  <2>6. idx[m - len] = idx[k]
    BY <1>k, <1>1, <2>3, <2>5 DEF x
  <2>7. m - len = k
    BY <1>k, <1>4, <2>5, <2>6, Zenon
  <2> QED BY <1>1, <1>3, <2>7
<1>6. ~(c < idx[k] + B)
  <2> SUFFICES ASSUME c < idx[k] + B PROVE FALSE
    OBVIOUS
  <2> DEFINE x == c - B
  <2>1. x \in Nat /\ x < idx[k] /\ x + B = c
    BY <1>k, <1>1, <1>2
  <2> HIDE DEF x
  <2>2. e[x] < len
    <3>1. e[x + B] = e[x]
      BY <2>1 DEF Cycles
    <3> QED BY <2>1, <3>1
  <2>3. x \in 0..(next - 1)
    BY <1>k, <1>1, <2>1
  <2>4. PICK m \in 1..L : idx[m] = x
    BY <2>2, <2>3, Zenon DEF Walked
  <2>5. m < k
    <3>1. k < m => idx[k] < idx[m]
      BY <1>k DEF Walked
    <3> QED BY <1>k, <1>1, <2>1, <2>4, <3>1, SMTT(30)
  <2>6. m + len \in 1..L /\ m + len > len /\ (m + len) - len = m
    BY <1>k, <1>1, <1>3, <2>5
  <2>7. idx[m + len] = idx[(m + len) - len] + B /\ idx[m + len] < next
    BY <2>6, Zenon DEF Walked
  <2> QED BY <1>1, <2>1, <2>4, <2>6, <2>7
<1> QED BY <1>k, <1>1, <1>5, <1>6 DEF k

\* Drawing the next number goes on with the walk.
LEMMA WalkGoesOn ==
    ASSUME NEW e, NEW B, NEW len, NEW idx, NEW L, NEW next, NEW c \in Nat,
           Cycles(e, B, len), Walked(e, B, len, idx, L, next),
           c >= next, e[c] < len, \A x \in next..(c - 1) : ~(e[x] < len)
    PROVE  Walked(e, B, len, Further(idx, L, c), L + 1, c + 1)
<1> DEFINE new == Further(idx, L, c)
<1>1. L \in Nat /\ next \in Nat /\ len \in Nat /\ len >= 1 /\ B \in Nat /\ idx \in [1..L -> Nat]
  BY WalkTypes
<1>2. /\ new \in [1..(L + 1) -> Nat] /\ new[L + 1] = c
      /\ \A k \in 1..L : new[k] = idx[k]
  BY <1>1 DEF Further
<1> HIDE DEF new
<1>3. \A k \in 1..(L + 1) : k \in 1..L \/ k = L + 1
  BY <1>1
<1>4. \A k \in 1..L : idx[k] \in Nat /\ idx[k] < next /\ e[idx[k]] < len
  BY WalkTypes
<1>5. ASSUME NEW k \in 1..(L + 1) PROVE new[k] < c + 1 /\ e[new[k]] < len
  <2>1. CASE k \in 1..L
    BY <1>1, <1>2, <1>4, <2>1
  <2>2. CASE k = L + 1
    <3>1. new[k] = c
      BY <1>2, <2>2
    <3>2. c < c + 1
      OBVIOUS
    <3> QED BY <3>1, <3>2
  <2> QED BY <1>3, <2>1, <2>2, Zenon
<1>6. ASSUME NEW x \in 0..(c + 1 - 1), e[x] < len PROVE \E k \in 1..(L + 1) : new[k] = x
  <2>1. CASE x < next
    <3>1. PICK k \in 1..L : idx[k] = x
      BY <1>1, <1>6, <2>1 DEF Walked
    <3>2. k \in 1..(L + 1)
      BY <1>1
    <3> QED BY <1>2, <3>1, <3>2, Zenon
  <2>2. CASE x >= next
    <3>1. x = c
      BY <1>1, <1>6, <2>2
    <3>2. L + 1 \in 1..(L + 1)
      BY <1>1
    <3> QED BY <1>2, <3>1, <3>2
  <2> QED BY <1>1, <2>1, <2>2
<1>7. ASSUME NEW j \in 1..(L + 1), NEW k \in 1..(L + 1), j < k PROVE new[j] < new[k]
  <2>1. j \in 1..L
    BY <1>1, <1>7
  <2>2. CASE k \in 1..L
    BY <1>2, <1>7, <2>1, <2>2, Zenon DEF Walked
  <2>3. CASE k = L + 1
    BY <1>1, <1>2, <1>4, <2>1, <2>3
  <2> QED BY <1>3, <2>2, <2>3, Zenon
<1>8. L + 1 <= len <=> c < B
  <2>1. CASE L < len
    <3>1. PICK x \in 0..(B - 1) : x >= next /\ e[x] < len
      BY <2>1, PassHasMore, Zenon
    <3>2. ~(x < c)
      BY <1>1, <3>1
    <3> QED BY <1>1, <2>1, <3>1, <3>2
  <2>2. CASE L >= len
    <3>1. c >= B
      BY <2>2, PassIsOver
    <3> QED BY <1>1, <2>2, <3>1
  <2> QED BY <1>1, <2>1, <2>2
<1>9. \A k \in 1..(L + 1) : k <= len <=> new[k] < B
  <2>1. \A k \in 1..L : k <= len <=> idx[k] < B
    BY DEF Walked
  <2> QED BY <1>2, <1>3, <1>8, <2>1, Zenon
<1>10. ASSUME NEW k \in 1..(L + 1), k > len PROVE new[k] = new[k - len] + B
  <2>1. k - len \in 1..L
    BY <1>1, <1>10
  <2>2. CASE k \in 1..L
    <3>1. idx[k] = idx[k - len] + B
      BY <1>10, <2>2 DEF Walked
    <3> QED BY <1>2, <2>1, <2>2, <3>1, Zenon
  <2>3. CASE k = L + 1
    <3>1. L >= len
      BY <1>1, <1>10, <2>3
    <3>2. c = idx[(L + 1) - len] + B
      BY <3>1, NextIsOneRoundLater, Zenon
    <3>3. new[k] = c
      BY <1>2, <2>3
    <3>4. new[k - len] = idx[k - len]
      BY <1>2, <2>1
    <3>5. k - len = (L + 1) - len
      BY <1>1, <2>3
    <3> QED BY <3>2, <3>3, <3>4, <3>5, Zenon
  <2> QED BY <1>3, <2>2, <2>3, Zenon
<1>11. L + 1 \in Nat /\ c + 1 \in Nat
  BY <1>1
<1> QED BY <1>2, <1>5, <1>6, <1>7, <1>9, <1>10, <1>11 DEF Walked, new

-----------------------------------------------------------------------------
(* The identifiers of dns_so_mkqid().                                       *)

\* dns_k_permutor_init() takes a block that is as long as the range or longer.
LEMMA RangeFits ==
    ASSUME NEW p, Keyed(p), PermutorLength(p) \in 1..(2 ^ 16)
    PROVE  PermutorLength(p) <= Size(p) * Size(p)
<1> DEFINE n == PermutorLength(p)
           w == PowOf(n)
           S == {i \in 0..16 : 2 ^ i >= n}
           Q(i) == 2 ^ i >= n /\ (i = 0 \/ 2 ^ (i - 1) < n)
<1>1. \A b \in 0..16 : 2 ^ b \in Nat /\ 2 ^ (b + 1) = 2 * 2 ^ b
  BY PowerAssumption, Zenon
<1>2. 2 ^ 16 \in Nat
  BY <1>1
<1>3. n \in Nat /\ n <= 2 ^ 16
  BY <1>2
<1> HIDE DEF n
<1>4. 16 \in S /\ S \subseteq Nat
  BY <1>2, <1>3
<1>5. PICK i \in S : \A j \in S : i <= j
  BY <1>4, LeastNumber, Zenon
<1>6. Q(i)
  <2>1. CASE i = 0
    BY <1>5, <2>1
  <2>2. CASE i # 0
    <3>1. i - 1 \in 0..16 /\ ~(i <= i - 1)
      BY <1>5, <2>2
    <3>2. ~(2 ^ (i - 1) >= n)
      BY <1>5, <3>1, Zenon
    <3>3. 2 ^ (i - 1) \in Nat
      BY <1>1, <3>1, Zenon
    <3> QED BY <1>3, <1>5, <3>2, <3>3
  <2> QED BY <2>1, <2>2
<1>7. w = CHOOSE j \in 0..16 : Q(j)
  BY DEF PowOf
<1>8. w \in 0..16 /\ Q(w)
  <2> HIDE DEF Q, w
  <2>1. i \in 0..16
    BY <1>5
  <2> QED BY <1>6, <1>7, <2>1
<1>9. HalfWidth(p) = (w + (w % 2)) \div 2
  BY DEF HalfWidth, n
<1> HIDE DEF w
<1>10. 2 * HalfWidth(p) = w \/ 2 * HalfWidth(p) = w + 1
  BY <1>8, <1>9
<1>11. 2 ^ (2 * HalfWidth(p)) >= n
  <2>1. 2 ^ w \in Nat /\ 2 ^ (w + 1) = 2 * 2 ^ w /\ 2 ^ w >= n
    BY <1>1, <1>8, Zenon
  <2>2. 2 ^ (w + 1) >= n
    <3> DEFINE x == 2 ^ w
               y == 2 ^ (w + 1)
    <3>1. x \in Nat /\ y = 2 * x /\ x >= n
      BY <2>1
    <3> HIDE DEF x, y
    <3>2. y >= n
      BY <1>3, <3>1
    <3> QED BY <3>2 DEF y
  <2> QED BY <1>10, <2>1, <2>2
<1> QED BY <1>3, <1>11, SizeIsPositive, Zenon DEF n

\* What dns_k_permutor_E() makes of the counter.
Code(p) == [x \in Nat |-> PermutorE(p, x)]

\* dns_k_permutor_E() runs through the block and begins again.
LEMMA CodeCycles ==
    ASSUME NEW p, Keyed(p), PermutorLength(p) \in 1..(2 ^ 16)
    PROVE  Cycles(Code(p), Size(p) * Size(p), PermutorLength(p))
<1> DEFINE M == Size(p)
           e == Code(p)
           B == M * M
           len == PermutorLength(p)
<1>1. M \in Nat \ {0}
  BY SizeIsPositive
<1>2. len \in 1..B
  <2>1. 2 ^ 16 \in Nat
    BY PowerAssumption
  <2>2. len \in Nat /\ len >= 1
    BY <2>1
  <2>3. B \in Nat
    BY <1>1
  <2>4. len <= B
    BY RangeFits, Zenon
  <2> HIDE DEF len, B
  <2> QED BY <2>2, <2>3, <2>4
<1>3. /\ \A x \in Nat : PermutorE(p, x) \in 0..(B - 1)
      /\ \A x, y \in 0..(B - 1) : PermutorE(p, x) = PermutorE(p, y) => x = y
  BY NumbersApart
<1>4. \A x \in Nat : e[x] = PermutorE(p, x)
  BY DEF Code
<1>5. e \in [Nat -> 0..(B - 1)]
  BY <1>3 DEF Code
<1> HIDE DEF e
<1>6. B \in Nat /\ \A x \in 0..(B - 1) : x \in Nat
  BY <1>1
<1>7. \A x, y \in 0..(B - 1) : e[x] = e[y] => x = y
  BY <1>3, <1>4, <1>6, Zenon
<1>8. ASSUME NEW v \in 0..(B - 1) PROVE \E x \in 0..(B - 1) : e[x] = v
  <2> DEFINE block == [l |-> v \div M, r |-> v % M]
             a == Decrypted(p, block)
  <2>1. v \div M \in 0..(M - 1) /\ v % M \in 0..(M - 1) /\ v = (v \div M) * M + (v % M)
    <3> HIDE DEF M
    <3> QED BY <1>1
  <2>2. HalvesOf(HalfWidth(p)) = 0..(M - 1)
    BY Zenon DEF HalvesOf, Size
  <2>3. block \in Blocks(p)
    BY <2>1, <2>2, Zenon DEF Blocks
  <2>4. a \in Blocks(p) /\ Encrypted(p, a) = block
    BY <2>3, EncryptionInverts, Zenon
  <2>5. Joined(p, block) = v
    BY <2>1, Zenon DEF Joined, Size
  <2> HIDE DEF block, a
  <2>6. a.l \in 0..(M - 1) /\ a.r \in 0..(M - 1) /\ a = [l |-> a.l, r |-> a.r]
    BY <2>2, <2>4, Zenon DEF Blocks
  <2> DEFINE x == a.l * M + a.r
  <2> HIDE DEF M
  <2>7. x \in 0..(B - 1) /\ HasDigits(x, M, a.l, a.r)
    BY <1>1, <2>6, DigitsOf, Zenon
  <2> HIDE DEF x
  <2>8. Halved(p, x) = a
    BY <2>6, <2>7, Zenon DEF Halved, HasDigits, M, Size
  <2>9. PermutorE(p, x) = v
    BY <2>4, <2>5, <2>8, Zenon DEF PermutorE
  <2> QED BY <1>4, <1>6, <2>7, <2>9, Zenon
<1>9. ASSUME NEW x \in Nat PROVE e[x + B] = e[x]
  <2>1. x + B \in Nat
    BY <1>6
  <2>2. Halved(p, x + B) = Halved(p, x)
    BY <1>1, DigitsAgain, Zenon DEF Halved, Size
  <2> QED BY <1>4, <2>1, <2>2, Zenon DEF PermutorE
<1> HIDE DEF B, len
<1>10. Cycles(e, B, len)
  BY <1>2, <1>5, <1>6, <1>7, <1>8, <1>9, Zenon DEF Cycles
<1> QED BY <1>10 DEF e, B, len

\* Distances and remainders.
LEMMA Remainders ==
    ASSUME NEW n \in Nat \ {0}, NEW d \in Nat
    PROVE  /\ (d + n) % n = d % n
           /\ d \in 1..(n - 1) => d % n # 0
           /\ n % n = 0
<1>1. ASSUME NEW x \in Nat PROVE (x + n) % n = x % n
  <2> DEFINE a == x \div n
             b == x % n
             c == a + 1
  <2>1. a \in Nat /\ b \in 0..(n - 1) /\ x = a * n + b /\ c \in Nat
    OBVIOUS
  <2>2. x + n = c * n + b
    <3> HIDE DEF a, b
    <3> QED BY <2>1
  <2> HIDE DEF a, b, c
  <2>3. (c * n + b) % n = b
    BY <2>1
  <2>4. (x + n) % n = b
    BY <2>2, <2>3, Zenon
  <2> QED BY <2>4 DEF b
<1>2. d \in 1..(n - 1) => d % n = d
  OBVIOUS
<1>3. 0 % n = 0 /\ 0 + n = n
  OBVIOUS
<1>4. n % n = 0
  BY <1>1, <1>3
<1>5. d \in 1..(n - 1) => d % n # 0
  BY <1>2
<1>6. (d + n) % n = d % n
  BY <1>1, Zenon
<1> QED BY <1>4, <1>5, <1>6, Zenon

\* If every element from n + 1 on is the one n places before it and the first n
\* differ, two elements are the same just where their distance is a multiple of
\* n: the next element keeps it so.
LEMMA RepeatsGoOn ==
    ASSUME NEW d, NEW L \in Nat, NEW n \in Nat \ {0},
           \A i, j \in 1..L : i < j => ((d[i] = d[j]) <=> ((j - i) % n = 0)),
           L + 1 <= n => \A i \in 1..L : d[i] # d[L + 1],
           L + 1 > n => d[L + 1] = d[(L + 1) - n]
    PROVE  \A i, j \in 1..(L + 1) : i < j => ((d[i] = d[j]) <=> ((j - i) % n = 0))
<1> DEFINE N == L + 1
<1>1. ASSUME NEW i \in 1..L PROVE (d[i] = d[N]) <=> ((N - i) % n = 0)
  <2>1. CASE N <= n
    <3>1. N - i \in 1..(n - 1) /\ N - i \in Nat
      BY <2>1
    <3>2. (N - i) % n # 0
      BY <3>1, Remainders
    <3> QED BY <2>1, <3>2
  <2>2. CASE N > n
    <3> DEFINE k == N - n
    <3>1. k \in 1..L /\ d[N] = d[k]
      BY <2>2
    <3>2. CASE i < k
      <4>1. (d[i] = d[k]) <=> ((k - i) % n = 0)
        BY <3>1, <3>2
      <4>2. k - i \in Nat /\ (k - i) + n = N - i
        BY <3>1, <3>2
      <4>3. ((k - i) + n) % n = (k - i) % n
        BY <4>2, Remainders, Zenon
      <4> QED BY <3>1, <4>1, <4>2, <4>3, Zenon
    <3>3. CASE i = k
      <4>1. N - i = n
        BY <3>3
      <4>2. n % n = 0
        BY Remainders
      <4> QED BY <3>1, <3>3, <4>1, <4>2
    <3>4. CASE i > k
      <4>1. (d[k] = d[i]) <=> ((i - k) % n = 0)
        BY <3>1, <3>4
      <4>2. i - k \in 1..(n - 1) /\ N - i \in 1..(n - 1) /\ i - k \in Nat /\ N - i \in Nat
        BY <3>1, <3>4
      <4>3. (i - k) % n # 0 /\ (N - i) % n # 0
        BY <4>2, Remainders, Zenon
      <4> QED BY <3>1, <4>1, <4>3
    <3>5. i < k \/ i = k \/ i > k
      BY <3>1
    <3> QED BY <3>2, <3>3, <3>4, <3>5
  <2> QED BY <2>1, <2>2
<1>2. ASSUME NEW i \in 1..N, NEW j \in 1..N, i < j
      PROVE  (d[i] = d[j]) <=> ((j - i) % n = 0)
  <2>1. i \in 1..L /\ (j \in 1..L \/ j = N)
    BY <1>2
  <2> HIDE DEF N
  <2> QED BY <1>1, <1>2, <2>1
<1> QED BY <1>2

\* The number dns_so_mkqid() makes of a counter.
Qid(p, c) == PermutorE(p, c) + p.high + 1 - PermutorLength(p)

\* The identifiers drawn are those of a walk around the block.
QidTypes ==
    /\ permutor \in [low : Nat, high : Nat, key : RoundKeys, stepi : Nat]
    /\ permutor.low <= permutor.high /\ permutor.high - permutor.low + 1 <= 2 ^ 16
    /\ HalfWidth(permutor) \in 0..HalfBits
    /\ drawn \in Seq(Int)
QidWalk ==
    \E idx : /\ Walked(Code(permutor), Size(permutor) * Size(permutor), PermutorLength(permutor),
                       idx, Len(drawn), permutor.stepi)
             /\ \A i \in 1..Len(drawn) : drawn[i] = Qid(permutor, idx[i])
QidInv == QidTypes /\ QidWalk /\ QidsDistinct

\* It holds when dns_k_permutor_init() returns.
LEMMA QidInvInit == PermutorInit => QidInv
<1> SUFFICES ASSUME PermutorInit PROVE QidInv OBVIOUS
<1>1. PICK r \in Ranges, k \in RoundKeys :
        permutor = [low |-> r[1], high |-> r[2], key |-> k, stepi |-> 0]
  BY DEF PermutorInit
<1>2. r[1] \in Nat /\ r[2] \in Nat /\ r[1] <= r[2] /\ r[2] - r[1] + 1 <= 2 ^ 16
      /\ HalfWidth([low |-> r[1], high |-> r[2]]) \in 0..HalfBits
  BY RangesAssumption
<1>3. permutor \in [low : Nat, high : Nat, key : RoundKeys, stepi : Nat] /\ permutor.stepi = 0
  BY <1>1, <1>2
<1>4. permutor.low <= permutor.high /\ permutor.high - permutor.low + 1 <= 2 ^ 16
  BY <1>1, <1>2, Zenon
<1>5. PermutorLength(permutor) = PermutorLength([low |-> r[1], high |-> r[2]])
  BY <1>1, Zenon DEF PermutorLength
<1>6. HalfWidth(permutor) \in 0..HalfBits BY <1>2, <1>5, Zenon DEF HalfWidth
<1>7. drawn = <<>> /\ Len(drawn) = 0 BY DEF PermutorInit
<1>8. QidTypes
  BY <1>3, <1>4, <1>6, <1>7 DEF QidTypes
<1>9. QidWalk
  <2> DEFINE none == [i \in 1..0 |-> 0]
             e == Code(permutor)
             B == Size(permutor) * Size(permutor)
             len == PermutorLength(permutor)
  <2>1. 1..0 = {} /\ 0..(0 - 1) = {}
    OBVIOUS
  <2>2. none \in [1..0 -> Nat]
    OBVIOUS
  <2> HIDE DEF none, e, B, len
  <2>3. Walked(e, B, len, none, 0, 0)
    BY <2>1, <2>2, Zenon DEF Walked
  <2> QED BY <1>3, <1>7, <2>1, <2>3, Zenon DEF QidWalk, e, B, len
<1>10. QidsDistinct
  BY <1>7 DEF QidsDistinct
<1> QED BY <1>8, <1>9, <1>10 DEF QidInv

\* dns_so_mkqid() keeps it.
LEMMA QidInvNext == QidInv /\ [MkQid]_permutorVars => QidInv'
<1> SUFFICES ASSUME QidInv, [MkQid]_permutorVars PROVE QidInv' BY Zenon
<1>1. CASE UNCHANGED permutorVars
  <2>1. permutor' = permutor /\ drawn' = drawn BY <1>1 DEF permutorVars
  <2> QED BY <2>1 DEF QidInv, QidTypes, QidWalk, QidsDistinct
<1>2. CASE MkQid
  <2> DEFINE p == permutor
             len == PermutorLength(p)
             B == Size(p) * Size(p)
             e == Code(p)
             L == Len(drawn)
             N == L + 1
  <2>1. /\ p \in [low : Nat, high : Nat, key : RoundKeys, stepi : Nat]
        /\ p.low <= p.high /\ p.high - p.low + 1 <= 2 ^ 16 /\ drawn \in Seq(Int) /\ Keyed(p)
    BY DEF QidInv, QidTypes, Keyed
  <2>2. len \in Nat \ {0} /\ p.high + 1 - len = p.low /\ len \in 1..(2 ^ 16)
    <3>1. 2 ^ 16 \in Nat
      BY PowerAssumption
    <3> QED BY <2>1, <3>1 DEF PermutorLength
  <2>3. PICK c \in Nat : /\ c >= p.stepi /\ PermutorE(p, c) \in 0..(len - 1)
                         /\ \A x \in p.stepi..(c - 1) : ~(PermutorE(p, x) < len)
                         /\ PermutorStep(p) = [n |-> PermutorE(p, c), stepi |-> c + 1]
    BY <2>1, <2>2, StepEncryptsCounter, Zenon
  <2>4. /\ permutor' = [permutor EXCEPT !.stepi = c + 1]
        /\ drawn' = Append(drawn, Qid(p, c))
    <3> DEFINE s == c + 1
    <3>1. PermutorStep(p) = [n |-> PermutorE(p, c), stepi |-> s]
      BY <2>3
    <3> HIDE DEF s, p
    <3>2. PermutorStep(p).n = PermutorE(p, c) /\ PermutorStep(p).stepi = s
      BY <3>1
    <3> QED BY <1>2, <3>2, Zenon DEF MkQid, Qid, p, s
  <2>5. /\ permutor'.key = p.key /\ permutor'.low = p.low /\ permutor'.high = p.high
        /\ permutor'.stepi = c + 1
        /\ permutor' \in [low : Nat, high : Nat, key : RoundKeys, stepi : Nat]
    <3>1. c + 1 \in Nat OBVIOUS
    <3> DEFINE s == c + 1
    <3>2. permutor' = [permutor EXCEPT !.stepi = s] /\ s \in Nat BY <2>4, <3>1, Zenon
    <3> HIDE DEF s
    <3>3. permutor' \in [low : Nat, high : Nat, key : RoundKeys, stepi : Nat] BY <2>1, <3>2, Zenon
    <3>4. permutor'.key = p.key /\ permutor'.low = p.low /\ permutor'.high = p.high BY <2>1, <3>2
    <3>5. permutor'.stepi = s BY <2>1, <3>2
    <3> QED BY <3>3, <3>4, <3>5 DEF s
  <2>6. /\ HalfWidth(permutor') = HalfWidth(p) /\ PermutorLength(permutor') = len
        /\ \A n : PermutorE(permutor', n) = PermutorE(p, n)
    <3> DEFINE q == permutor'
    <3>1. p.key = q.key /\ p.low = q.low /\ p.high = q.high BY <2>5
    <3> HIDE DEF p, q
    <3>2. /\ HalfWidth(p) = HalfWidth(q) /\ PermutorLength(p) = PermutorLength(q)
          /\ \A n : PermutorE(p, n) = PermutorE(q, n)
      BY <3>1, CounterIsNoKey
    <3> QED BY <3>2 DEF q
  <2>7. /\ \A n : Qid(permutor', n) = Qid(p, n)
        /\ Code(permutor') = e /\ Size(permutor') * Size(permutor') = B
    BY <2>5, <2>6 DEF Qid, Code, Size
  <2>8. Qid(p, c) \in p.low..p.high
    BY <2>1, <2>2, <2>3, SMTT(30) DEF Qid
  <2>9. /\ drawn' \in Seq(Int) /\ Len(drawn') = N /\ L \in Nat /\ drawn'[N] = Qid(p, c)
        /\ \A i \in 1..L : drawn'[i] = drawn[i]
    <3>1. Qid(p, c) \in Int BY <2>1, <2>8
    <3> HIDE DEF p
    <3> QED BY <2>1, <2>4, <3>1
  <2>10. QidTypes'
    BY <2>1, <2>5, <2>6, <2>9, Zenon DEF QidTypes, QidInv
  <2>11. PICK idx : /\ Walked(e, B, len, idx, L, p.stepi)
                    /\ \A i \in 1..L : drawn[i] = Qid(p, idx[i])
    BY DEF QidInv, QidWalk
  <2>12. Cycles(e, B, len)
    BY <2>1, <2>2, CodeCycles, Zenon
  <2> DEFINE new == Further(idx, L, c)
  <2>13. Walked(e, B, len, new, N, c + 1)
    <3>1. \A x \in Nat : e[x] = PermutorE(p, x)
      BY DEF Code
    <3>2. p.stepi \in Nat
      BY <2>1
    <3>3. \A x \in p.stepi..(c - 1) : x \in Nat
      BY <3>2
    <3>4. e[c] < len
      BY <2>2, <2>3, <3>1
    <3>5. \A x \in p.stepi..(c - 1) : ~(e[x] < len)
      BY <2>3, <3>1, <3>3, Zenon
    <3> HIDE DEF e, B, len, L, p
    <3> QED BY <2>3, <2>11, <2>12, <3>4, <3>5, WalkGoesOn, Zenon DEF N, new
  <2>14. new[N] = c /\ \A i \in 1..L : new[i] = idx[i]
    BY <2>9 DEF Further
  <2>15. \A i \in 1..N : i \in 1..L \/ i = N
    BY <2>9
  <2> HIDE DEF new
  <2>16. \A i \in 1..N : drawn'[i] = Qid(p, new[i])
    BY <2>9, <2>11, <2>14, <2>15, Zenon
  <2>17. QidWalk'
    <3> HIDE DEF e, B, len, p
    <3>1. Walked(Code(permutor'), Size(permutor') * Size(permutor'), PermutorLength(permutor'),
                 new, Len(drawn'), permutor'.stepi)
      BY <2>5, <2>6, <2>7, <2>9, <2>13, Zenon DEF p
    <3>2. \A i \in 1..Len(drawn') : drawn'[i] = Qid(permutor', new[i])
      BY <2>7, <2>9, <2>16, Zenon
    <3> QED BY <3>1, <3>2, Zenon DEF QidWalk
  <2>18. \A x, y \in Nat : e[x] # e[y] => Qid(p, x) # Qid(p, y)
    <3>1. \A x \in Nat : PermutorE(p, x) \in Int /\ e[x] = PermutorE(p, x)
      <4>1. \A x \in Nat : PermutorE(p, x) \in 0..(Size(p) * Size(p) - 1)
        BY <2>1, NumbersApart, Zenon
      <4> QED BY <4>1 DEF Code
    <3>2. \A x \in Nat : Qid(p, x) = PermutorE(p, x) + p.low
      BY <2>1, <2>2, <3>1, SMTT(30) DEF Qid
    <3>3. p.low \in Int
      BY <2>1
    <3> HIDE DEF e, p
    <3> QED BY <3>1, <3>2, <3>3
  <2>19. N <= len => \A i \in 1..L : drawn'[i] # drawn'[N]
    <3> SUFFICES ASSUME N <= len, NEW i \in 1..L PROVE drawn'[i] # drawn'[N]
      BY Zenon
    <3>1. i \in 1..N /\ N \in 1..N /\ i < N /\ i <= len
      BY <2>2, <2>9, SMTT(30)
    <3>2. new[i] \in Nat /\ new[N] \in Nat
      BY <2>13, <3>1 DEF Walked
    <3>3. new[i] < new[N] /\ new[i] < B /\ new[N] < B /\ B \in Nat
      BY <2>12, <2>13, <3>1, Zenon DEF Walked, Cycles
    <3>4. new[i] # new[N] /\ new[i] \in 0..(B - 1) /\ new[N] \in 0..(B - 1)
      <4> HIDE DEF B
      <4> QED BY <3>2, <3>3
    <3>5. e[new[i]] # e[new[N]]
      BY <2>12, <3>4, Zenon DEF Cycles
    <3> QED BY <2>16, <2>18, <3>1, <3>2, <3>5
  <2>20. N > len => drawn'[N] = drawn'[N - len]
    <3> SUFFICES ASSUME N > len PROVE drawn'[N] = drawn'[N - len]
      OBVIOUS
    <3>1. N \in 1..N /\ N - len \in 1..N
      BY <2>2, <2>9
    <3>2. new[N] = new[N - len] + B /\ new[N - len] \in Nat
      BY <2>13, <3>1, Zenon DEF Walked
    <3>3. e[new[N - len] + B] = e[new[N - len]] /\ new[N - len] + B \in Nat
      <4>1. B \in Nat
        BY <2>12, Zenon DEF Cycles
      <4> DEFINE y == new[N - len]
      <4> HIDE DEF B, e, y
      <4>2. y \in Nat
        BY <3>2, Zenon DEF y
      <4>3. e[y + B] = e[y] /\ y + B \in Nat
        BY <2>12, <4>1, <4>2 DEF Cycles
      <4> QED BY <4>3, Zenon DEF y
    <3>4. PermutorE(p, new[N]) = PermutorE(p, new[N - len])
      BY <3>2, <3>3, Zenon DEF Code
    <3> QED BY <2>16, <3>1, <3>4 DEF Qid
  <2>21. \A i \in 1..L : drawn[i] \in p.low..p.high
    <3>1. DOMAIN drawn = 1..L
      BY <2>1
    <3> QED BY <3>1, Zenon DEF QidInv, QidsDistinct
  <2>22. \A i, j \in 1..L : i < j => ((drawn[i] = drawn[j]) <=> ((j - i) % len = 0))
    <3>1. DOMAIN drawn = 1..L
      BY <2>1
    <3> QED BY <3>1, Zenon DEF QidInv, QidsDistinct
  <2>23. \A i, j \in 1..N : i < j => ((drawn'[i] = drawn'[j]) <=> ((j - i) % len = 0))
    <3>1. \A i, j \in 1..L : i < j => ((drawn'[i] = drawn'[j]) <=> ((j - i) % len = 0))
      BY <2>9, <2>22, Zenon
    <3> DEFINE d == drawn'
    <3> HIDE DEF d, len, L
    <3>2. \A i, j \in 1..L : i < j => ((d[i] = d[j]) <=> ((j - i) % len = 0))
      BY <3>1 DEF d
    <3>3. L + 1 <= len => \A i \in 1..L : d[i] # d[L + 1]
      BY <2>19 DEF d
    <3>4. L + 1 > len => d[L + 1] = d[(L + 1) - len]
      BY <2>20, Zenon DEF d
    <3>5. \A i, j \in 1..N : i < j => ((d[i] = d[j]) <=> ((j - i) % len = 0))
      <4>1. len \in Nat \ {0} /\ L \in Nat
        BY <2>2, <2>9, Zenon
      <4> QED BY <3>2, <3>3, <3>4, <4>1, RepeatsGoOn, Zenon
    <3> QED BY <3>5, Zenon DEF d
  <2>24. \A i \in 1..N : drawn'[i] \in permutor'.low..permutor'.high
    BY <2>5, <2>8, <2>9, <2>15, <2>21, Zenon
  <2>25. QidsDistinct'
    <3>1. DOMAIN drawn' = 1..N
      BY <2>9
    <3> HIDE DEF N, len
    <3> QED BY <2>6, <2>23, <2>24, <3>1 DEF QidsDistinct
  <2> QED BY <2>10, <2>17, <2>25, Zenon DEF QidInv
<1> QED BY <1>1, <1>2, Zenon

\* Whatever the round function and the range: dns_so_mkqid() gives identifiers
\* in the range, none twice before all were given, and then the same again.
THEOREM MkQidDistinct == PermutorSpec => []QidsDistinct
<1>1. QidInv => QidsDistinct BY DEF QidInv
<1> QED BY <1>1, QidInvInit, QidInvNext, PTL DEF PermutorSpec

-----------------------------------------------------------------------------
(* dns_k_shuffle16().                                                       *)

Half == HalvesOf(HalfBits)

LEMMA XorCancels ==
    ASSUME NEW x \in Half, NEW y \in Half, NEW z \in Half, BitXor(x, z) = BitXor(y, z)
    PROVE  x = y
<1>1. HalfBits \in 0..HalfBits BY BoxesAssumption
<1>2. BitXor(BitXor(x, z), z) = x /\ BitXor(BitXor(y, z), z) = y BY <1>1, XorAssumption, Zenon DEF Half
<1> QED BY <1>2, Zenon

\* A round keeps the two halves in their width and loses nothing of them.
LEMMA ShuffleRoundApart ==
    ASSUME NEW box \in Boxes, NEW key \in Half, NEW x \in [a : Half, b : Half], NEW y \in [a : Half, b : Half]
    PROVE  /\ ShuffleRound(x, key, box) \in [a : Half, b : Half]
           /\ ShuffleRound(x, key, box) = ShuffleRound(y, key, box) => x = y
<1>1. \A u, v \in Half : BitXor(u, v) \in Half
  <2>1. HalfBits \in 0..HalfBits BY BoxesAssumption
  <2> QED BY <2>1, XorAssumption, Zenon DEF Half
<1>2. (\A u \in Half : box[u] \in Half) /\ \A u, v \in Half : box[u] = box[v] => u = v
  BY BoxesAssumption, Zenon DEF Half
<1> DEFINE A(z) == BitXor(box[BitXor(z.a, key)], z.b)
           B(z) == BitXor(box[z.b], A(z))
<1>3. \A z \in [a : Half, b : Half] : z.a \in Half /\ z.b \in Half /\ z = [a |-> z.a, b |-> z.b] OBVIOUS
<1>4. \A z \in [a : Half, b : Half] : BitXor(z.a, key) \in Half /\ box[BitXor(z.a, key)] \in Half
  BY <1>1, <1>2, <1>3, Zenon
<1>5. \A z \in [a : Half, b : Half] : A(z) \in Half BY <1>1, <1>3, <1>4, Zenon
<1>6. \A z \in [a : Half, b : Half] : box[z.b] \in Half BY <1>2, <1>3, Zenon
<1> HIDE DEF A
<1>7. \A z \in [a : Half, b : Half] : B(z) \in Half BY <1>1, <1>5, <1>6, Zenon
<1>8. \A z : ShuffleRound(z, key, box) = [a |-> A(z), b |-> B(z)] BY Zenon DEF ShuffleRound, A
<1> HIDE DEF B
<1>9. ASSUME ShuffleRound(x, key, box) = ShuffleRound(y, key, box) PROVE x = y
  <2>1. A(x) = A(y) /\ B(x) = B(y) BY <1>8, <1>9
  <2>2. box[x.b] = box[y.b] BY <1>5, <1>6, <2>1, XorCancels, Zenon DEF B
  <2>3. x.b = y.b BY <1>2, <1>3, <2>2, Zenon
  <2>4. box[BitXor(x.a, key)] = box[BitXor(y.a, key)] BY <1>3, <1>4, <2>1, <2>3, XorCancels, Zenon DEF A
  <2>5. BitXor(x.a, key) = BitXor(y.a, key) BY <1>2, <1>4, <2>4, Zenon
  <2>6. x.a = y.a BY <1>3, <2>5, XorCancels, Zenon
  <2> QED BY <1>3, <2>3, <2>6, Zenon
<1> QED BY <1>5, <1>7, <1>8, <1>9

\* The four rounds, one after the other.
LEMMA ShufflingRounds ==
    ASSUME NEW x, NEW s, NEW box
    PROVE  /\ Shuffling(x, s, box)[0] = x
           /\ \A i \in 1..4 : Shuffling(x, s, box)[i] = ShuffleRound(Shuffling(x, s, box)[i - 1], s[i], box)
<1> DEFINE x1 == ShuffleRound(x, s[1], box)
           x2 == ShuffleRound(x1, s[2], box)
           x3 == ShuffleRound(x2, s[3], box)
           x4 == ShuffleRound(x3, s[4], box)
           g == [i \in 0..4 |-> CASE i = 0 -> x [] i = 1 -> x1 [] i = 2 -> x2 [] i = 3 -> x3 [] i = 4 -> x4]
           R(f) == [i \in 0..4 |-> IF i = 0 THEN x ELSE ShuffleRound(f[i - 1], s[i], box)]
<1>1. g[0] = x /\ g[1] = x1 /\ g[2] = x2 /\ g[3] = x3 /\ g[4] = x4 OBVIOUS
<1>2. ASSUME NEW i \in 0..4 PROVE g[i] = R(g)[i]
  <2> HIDE DEF g
  <2>1. i \in {0, 1, 2, 3, 4} OBVIOUS
  <2> QED BY <1>1, <2>1
<1>3. g = R(g) BY <1>2
<1>4. \E f : f = R(f) BY <1>3, Zenon
<1> DEFINE e == CHOOSE f : f = R(f)
<1>5. e = R(e)
  <2> HIDE DEF R
  <2> QED BY <1>4
<1>6. Shuffling(x, s, box) = e BY DEF Shuffling
<1> HIDE DEF e
<1>7. e[0] = x BY <1>5
<1>8. ASSUME NEW i \in 1..4 PROVE e[i] = ShuffleRound(e[i - 1], s[i], box) BY <1>5
<1> QED BY <1>6, <1>7, <1>8, Zenon

\* Whatever the seed and the box, dns_k_shuffle16() takes no two numbers to the
\* same: dns_rr_i_shuffle() never finds two records of a section equal.
THEOREM ShuffleIsApart ==
    ASSUME NEW box \in Boxes, NEW s \in [1..4 -> Half],
           NEW m \in 0..(2 ^ HalfBits * 2 ^ HalfBits - 1), NEW n \in 0..(2 ^ HalfBits * 2 ^ HalfBits - 1),
           Shuffled(m, s, box) = Shuffled(n, s, box)
    PROVE  m = n
<1> DEFINE M == 2 ^ HalfBits
           AB == [a : Half, b : Half]
           x == [a |-> m % M, b |-> m \div M]
           y == [a |-> n % M, b |-> n \div M]
           f == Shuffling(x, s, box)
           g == Shuffling(y, s, box)
<1>1. M \in Nat \ {0}
  <2>1. HalfBits \in 0..HalfBits BY BoxesAssumption
  <2> QED BY <2>1, PowerAssumption
<1>2. Half = 0..(M - 1) BY Zenon DEF Half, HalvesOf
<1>3. m \in 0..(M * M - 1) /\ n \in 0..(M * M - 1) /\ m \in Nat /\ n \in Nat BY <1>1
<1>4. f[4].a * M + f[4].b = g[4].a * M + g[4].b BY Zenon DEF Shuffled
<1> HIDE DEF M
<1>5. \A k \in 0..(M * M - 1) :
        k % M \in 0..(M - 1) /\ k \div M \in 0..(M - 1) /\ k = M * (k \div M) + (k % M)
  BY <1>1
<1>6. x \in AB /\ y \in AB BY <1>2, <1>3, <1>5, Zenon
<1>7. f[0] = x /\ \A i \in 1..4 : f[i] = ShuffleRound(f[i - 1], s[i], box) BY ShufflingRounds
<1>8. g[0] = y /\ \A i \in 1..4 : g[i] = ShuffleRound(g[i - 1], s[i], box) BY ShufflingRounds
<1> HIDE DEF f, g, x, y
<1>9. ASSUME NEW i \in 1..4, f[i - 1] \in AB, g[i - 1] \in AB
      PROVE  f[i] \in AB /\ g[i] \in AB /\ (f[i] = g[i] => f[i - 1] = g[i - 1])
  <2>1. s[i] \in Half BY Zenon
  <2>2. f[i] = ShuffleRound(f[i - 1], s[i], box) /\ g[i] = ShuffleRound(g[i - 1], s[i], box) BY <1>7, <1>8, Zenon
  <2> QED BY <1>9, <2>1, <2>2, ShuffleRoundApart, Zenon
<1>10. f[1] \in AB /\ g[1] \in AB /\ (f[1] = g[1] => x = y) BY <1>6, <1>7, <1>8, <1>9
<1>11. f[2] \in AB /\ g[2] \in AB /\ (f[2] = g[2] => f[1] = g[1]) BY <1>9, <1>10
<1>12. f[3] \in AB /\ g[3] \in AB /\ (f[3] = g[3] => f[2] = g[2]) BY <1>9, <1>11
<1>13. f[4] \in AB /\ g[4] \in AB /\ (f[4] = g[4] => f[3] = g[3]) BY <1>9, <1>12
<1>14. /\ f[4].a \in 0..(M - 1) /\ f[4].b \in 0..(M - 1) /\ f[4] = [a |-> f[4].a, b |-> f[4].b]
       /\ g[4].a \in 0..(M - 1) /\ g[4].b \in 0..(M - 1) /\ g[4] = [a |-> g[4].a, b |-> g[4].b]
  BY <1>2, <1>13, Zenon
<1>15. f[4].a = g[4].a /\ f[4].b = g[4].b
  <2> DEFINE l == f[4].a
             r == f[4].b
             k == g[4].a
             t == g[4].b
  <2>1. l \in 0..(M - 1) /\ r \in 0..(M - 1) /\ k \in 0..(M - 1) /\ t \in 0..(M - 1) BY <1>14
  <2>2. l * M + r = k * M + t BY <1>4, Zenon
  <2> HIDE DEF l, r, k, t
  <2>3. l = k /\ r = t BY <1>1, <2>1, <2>2, DigitsDetermined, Zenon
  <2> QED BY <2>3 DEF l, r, k, t
<1>16. x = y BY <1>10, <1>11, <1>12, <1>13, <1>14, <1>15, Zenon
<1>17. m % M = n % M /\ m \div M = n \div M BY <1>16 DEF x, y
<1> QED BY <1>1, <1>3, <1>5, <1>17, Zenon
=============================================================================
