-------------------------- MODULE NosoHash_proofs ---------------------------
(***************************************************************************)
(* What the hashes of a pool rest on: no two of its threads, and no two    *)
(* steps of a thread, hash the same base; and no sum of characters is      *)
(* looked up outside the table.                                            *)
(***************************************************************************)
EXTENDS NosoHash, WellFoundedInduction, TLAPS

\* The characters that a row of m_stat may have.
Chars == 32 .. 126

\* The threads that nosohash_prefix can tell apart, and the steps that _itoa can.
ThreadIds == 0 .. (HASHEABLE_COUNT * HASHEABLE_COUNT - 1)
Steps == {n \in Nat : n < 1000000000}

-----------------------------------------------------------------------------
(* Bases.                                                                  *)

\* No two indices have the same character.
LEMMA HasheableCharInjective ==
  ASSUME NEW i \in Int, NEW j \in Int, HasheableChar(i) = HasheableChar(j)
  PROVE  i = j
BY SMT DEF HasheableChar

\* Different threads have different prefixes: the thread is put together again
\* from the two indices.
LEMMA PrefixInjective ==
  ASSUME NEW t \in ThreadIds, NEW u \in ThreadIds,
         nosohash_prefix(t) = nosohash_prefix(u)
  PROVE  t = u
<1>1. /\ HasheableChar(t \div 92) = HasheableChar(u \div 92)
      /\ HasheableChar(t % 92) = HasheableChar(u % 92)
  BY SMT DEF nosohash_prefix, HASHEABLE_COUNT
<1>2. /\ t \div 92 \in Int /\ u \div 92 \in Int
      /\ t % 92 \in 0 .. 91 /\ u % 92 \in 0 .. 91
      /\ t = 92 * (t \div 92) + (t % 92)
      /\ u = 92 * (u \div 92) + (u % 92)
  BY SMT DEF ThreadIds, HASHEABLE_COUNT
<1>3. t % 92 \in Int /\ u % 92 \in Int
  BY SMT, <1>2
<1>4. t \div 92 = u \div 92 /\ t % 92 = u % 92
  BY Zenon, <1>1, <1>2, <1>3, HasheableCharInjective
<1>. QED  BY SMT, <1>2, <1>4

\* The powers of the nine digits.
PowersOfTen ==
  {1, 10, 100, 1000, 10000, 100000, 1000000, 10000000, 100000000}

\* The digit in front of the digits that n % p has left.
LEMMA FrontDigit ==
  ASSUME NEW n \in Nat,
         NEW p \in PowersOfTen
  PROVE  /\ (n % (10 * p)) \div p \in 0 .. 9
         /\ n % (10 * p) = p * ((n % (10 * p)) \div p) + (n % p)
<1>1. CASE p = 1  BY SMT, <1>1
<1>2. CASE p = 10  BY SMT, <1>2
<1>3. CASE p = 100  BY SMT, <1>3
<1>4. CASE p = 1000  BY SMT, <1>4
<1>5. CASE p = 10000  BY SMT, <1>5
<1>6. CASE p = 100000  BY SMT, <1>6
<1>7. CASE p = 1000000  BY SMT, <1>7
<1>8. CASE p = 10000000  BY SMT, <1>8
<1>9. CASE p = 100000000  BY SMT, <1>9
<1>. QED  BY SMT, <1>1, <1>2, <1>3, <1>4, <1>5, <1>6, <1>7, <1>8, <1>9
          DEF PowersOfTen

\* Two counters that agree in the digits after one, and in that one, agree in
\* one digit more.
LEMMA NextDigit ==
  ASSUME NEW m \in Nat, NEW n \in Nat,
         NEW p \in PowersOfTen,
         (m % (10 * p)) \div p = (n % (10 * p)) \div p,
         m % p = n % p
  PROVE  m % (10 * p) = n % (10 * p)
<1>1. m % (10 * p) = p * ((m % (10 * p)) \div p) + (m % p)
  BY Zenon, FrontDigit
<1>2. n % (10 * p) = p * ((n % (10 * p)) \div p) + (n % p)
  BY Zenon, FrontDigit
<1>. QED  BY Zenon, <1>1, <1>2

\* Different counters of nine digits have different digits: from the last digit
\* to the first, equal digits make the counters equal modulo one power more.
LEMMA DigitsInjective ==
  ASSUME NEW m \in Steps, NEW n \in Steps, Digits(m) = Digits(n)
  PROVE  m = n
<1>1. m \in Nat /\ n \in Nat  BY SMT DEF Steps
<1>2. \A i \in 1 .. 9 : Powers[i] \in PowersOfTen
  BY SMT DEF Powers, PowersOfTen
<1>3. \A i \in 1 .. 9 : (m % (10 * Powers[i])) \div Powers[i]
                       = (n % (10 * Powers[i])) \div Powers[i]
  <2>1. SUFFICES ASSUME NEW i \in 1 .. 9
                 PROVE  (m % (10 * Powers[i])) \div Powers[i]
                          = (n % (10 * Powers[i])) \div Powers[i]
    OBVIOUS
  <2>2. /\ Digits(m)[i] = 48 + ((m % (10 * Powers[i])) \div Powers[i])
        /\ Digits(n)[i] = 48 + ((n % (10 * Powers[i])) \div Powers[i])
    BY SMT, <2>1 DEF Digits
  <2>3. /\ (m % (10 * Powers[i])) \div Powers[i] \in 0 .. 9
        /\ (n % (10 * Powers[i])) \div Powers[i] \in 0 .. 9
    BY Zenon, <1>1, <1>2, <2>1, FrontDigit
  <2>. QED  BY SMT, <2>2, <2>3
<1>4. \A i \in 1 .. 9 : m % Powers[i] = n % Powers[i]
                         => m % (10 * Powers[i]) = n % (10 * Powers[i])
  BY Zenon, <1>1, <1>2, <1>3, NextDigit
<1>5. /\ 10 * Powers[9] = Powers[8] /\ 10 * Powers[8] = Powers[7]
      /\ 10 * Powers[7] = Powers[6] /\ 10 * Powers[6] = Powers[5]
      /\ 10 * Powers[5] = Powers[4] /\ 10 * Powers[4] = Powers[3]
      /\ 10 * Powers[3] = Powers[2] /\ 10 * Powers[2] = Powers[1]
  BY SMT DEF Powers
<1>6. m % Powers[9] = n % Powers[9]
  BY SMT, <1>1 DEF Powers
<1>7. /\ m % Powers[8] = n % Powers[8] /\ m % Powers[7] = n % Powers[7]
      /\ m % Powers[6] = n % Powers[6] /\ m % Powers[5] = n % Powers[5]
  BY SMT, <1>4, <1>5, <1>6
<1>8. /\ m % Powers[4] = n % Powers[4] /\ m % Powers[3] = n % Powers[3]
      /\ m % Powers[2] = n % Powers[2] /\ m % Powers[1] = n % Powers[1]
  BY SMT, <1>4, <1>5, <1>7
<1>9. m % (10 * Powers[1]) = n % (10 * Powers[1])
  BY SMT, <1>4, <1>8
<1>10. m % 1000000000 = n % 1000000000
  BY SMT, <1>9 DEF Powers
<1>. QED  BY SMT, <1>1, <1>10 DEF Steps

\* The threads of a pool never hash the same base in a block, nor does a thread
\* hash one twice: of the solutions that AddSolution collects no two have the
\* same base.
THEOREM BaseInjective ==
  ASSUME NEW prefix \in Seq(33 .. 126), Len(prefix) = 3,
         NEW t \in ThreadIds, NEW u \in ThreadIds,
         NEW m \in Steps, NEW n \in Steps,
         Base(prefix, t, m) = Base(prefix, u, n)
  PROVE  t = u /\ m = n
<1>1. nosohash_prefix(t) = nosohash_prefix(u)
  <2>1. ASSUME NEW x \in ThreadIds, NEW k \in Steps
        PROVE  nosohash_prefix(x) = <<Base(prefix, x, k)[4], Base(prefix, x, k)[5]>>
    BY SMT DEF Base, ThreadPrefix, nosohash_prefix
  <2>. QED  BY SMT, <2>1
<1>2. Digits(m) = Digits(n)
  <2>. DEFINE LastNine(b) == [i \in 1 .. 9 |-> b[i + 9]]
  <2>1. ASSUME NEW x \in ThreadIds, NEW k \in Steps
        PROVE  Digits(k) = LastNine(Base(prefix, x, k))
    <3>1. ASSUME NEW i \in 1 .. 9
          PROVE  Base(prefix, x, k)[i + 9] = Digits(k)[i]
      BY SMT DEF Base
    <3>2. Digits(k) = [i \in 1 .. 9 |-> Digits(k)[i]]
      BY SMT DEF Digits
    <3>. QED  BY SMT, <3>1, <3>2
  <2>. HIDE DEF LastNine
  <2>. QED  BY Zenon, <2>1
<1>. QED  BY Zenon, <1>1, <1>2, PrefixInjective, DigitsInjective

-----------------------------------------------------------------------------
(* The table.                                                              *)

\* A sum of two or of four characters is a place of the table, where a
\* character stands.
LEMMA CharsTableOfSum ==
  ASSUME NEW sum \in 64 .. 504
  PROVE  CharsTable(sum) \in Chars /\ sum < TableSize
BY SMT DEF CharsTable, Chars, TableSize

\* The sums of two and of four characters.
LEMMA SumsOfChars ==
  ASSUME NEW a \in Chars, NEW b \in Chars, NEW c \in Chars, NEW d \in Chars
  PROVE  a + b \in 64 .. 504 /\ a + b + c + d \in 64 .. 504
BY SMT DEF Chars

\* The filler has characters only.
LEMMA FillerChars == \A k \in 1 .. 17 : Filler[k] \in Chars
<1>1. SUFFICES ASSUME NEW k \in 1 .. 17
               PROVE  Filler[k] \in Chars
  OBVIOUS
<1>2. k \in {1, 2, 3, 4, 5, 6, 7, 8, 9, 10, 11, 12, 13, 14, 15, 16, 17}
  BY SMT
<1>3. /\ Filler[1] = 37 /\ Filler[2] = 41 /\ Filler[3] = 43 /\ Filler[4] = 47
      /\ Filler[5] = 53 /\ Filler[6] = 59 /\ Filler[7] = 61 /\ Filler[8] = 67
      /\ Filler[9] = 71 /\ Filler[10] = 73 /\ Filler[11] = 79 /\ Filler[12] = 83
      /\ Filler[13] = 89 /\ Filler[14] = 97 /\ Filler[15] = 101
      /\ Filler[16] = 103 /\ Filler[17] = 107
  BY SMT DEF Filler
<1>. QED  BY SMT, <1>2, <1>3 DEF Chars

\* _init fills the first row with characters, for each base and each address,
\* of 30 characters or 31.
LEMMA StartChars ==
  ASSUME NEW base \in [1 .. 18 -> Chars], NEW length \in {30, 31},
         NEW address \in [1 .. length -> Chars], Len(address) = length
  PROVE  Start(base, address) \in [Row -> Chars]
<1>1. ASSUME NEW i \in Row
      PROVE  (IF i <= 18 THEN base[i]
              ELSE IF i <= 18 + length THEN address[i - 18]
              ELSE Filler[((i - 19 - length) % 17) + 1]) \in Chars
  <2>. i \in Int /\ 1 <= i /\ length \in Int  BY SMT, <1>1 DEF Row
  <2>1. CASE i <= 18
    <3>1. i \in 1 .. 18  BY SMT, <2>1
    <3>. QED  BY Zenon, <2>1, <3>1
  <2>2. CASE ~ (i <= 18) /\ i <= 18 + length
    <3>1. i - 18 \in 1 .. length  BY SMT, <2>2
    <3>. QED  BY Zenon, <2>2, <3>1
  <2>3. CASE ~ (i <= 18) /\ ~ (i <= 18 + length)
    <3>1. i - 19 - length \in Nat  BY SMT, <2>3
    <3>2. ((i - 19 - length) % 17) + 1 \in 1 .. 17  BY SMT, <3>1
    <3>. QED  BY Zenon, <2>3, <3>2, FillerChars
  <2>. QED  BY Zenon, <2>1, <2>2, <2>3
<1>. QED  BY SMT, <1>1 DEF Start

\* A row of characters is looked up inside the table and becomes a row of
\* characters; so does the last one, which becomes 32 hexadecimal digits.
LEMMA TableNotLeft ==
  ASSUME NEW s \in [Row -> Chars]
  PROVE  /\ \A i \in Row : s[i] + s[Following(i)] \in 0 .. TableSize - 1
         /\ NextRow(s) \in [Row -> Chars]
         /\ \A i \in 1 .. 32 : PackSum(s, i) \in 0 .. TableSize - 1
         /\ Pack(s) \in [1 .. 32 -> 0 .. 15]
<1>1. \A i \in Row : s[i] + s[Following(i)] \in 64 .. 504
  <2>1. SUFFICES ASSUME NEW i \in Row
                 PROVE  s[i] + s[Following(i)] \in 64 .. 504
    OBVIOUS
  <2>2. s[i] \in Chars /\ s[Following(i)] \in Chars
    BY SMT DEF Row, Following
  <2>. QED  BY SMT, <2>2 DEF Chars
<1>2. \A i \in 1 .. 32 : PackSum(s, i) \in 64 .. 504
  <2>1. SUFFICES ASSUME NEW i \in 1 .. 32
                 PROVE  PackSum(s, i) \in 64 .. 504
    OBVIOUS
  <2>2. /\ s[4 * i - 3] \in Chars /\ s[4 * i - 2] \in Chars
        /\ s[4 * i - 1] \in Chars /\ s[4 * i] \in Chars
    BY SMT DEF Row
  <2>3. s[4 * i - 3] + s[4 * i - 2] + s[4 * i - 1] + s[4 * i] \in 64 .. 504
    BY SMT, <2>2, SumsOfChars
  <2>. QED  BY SMT, <2>3 DEF PackSum
<1>3. NextRow(s) \in [Row -> Chars]
  BY SMT, <1>1, CharsTableOfSum DEF NextRow
<1>4. Pack(s) \in [1 .. 32 -> 0 .. 15]
  <2>1. ASSUME NEW i \in 1 .. 32
        PROVE  CharsTable(PackSum(s, i)) % 16 \in 0 .. 15
    <3>1. CharsTable(PackSum(s, i)) \in Chars  BY Zenon, <1>2, CharsTableOfSum
    <3>. QED  BY SMT, <3>1 DEF Chars
  <2>. QED  BY SMT, <2>1 DEF Pack
<1>5. \A sum \in 64 .. 504 : sum \in 0 .. TableSize - 1
  BY SMT DEF TableSize
<1>6. /\ \A i \in Row : s[i] + s[Following(i)] \in 0 .. TableSize - 1
      /\ \A i \in 1 .. 32 : PackSum(s, i) \in 0 .. TableSize - 1
  BY Zenon, <1>1, <1>2, <1>5
<1>. QED  BY Zenon, <1>3, <1>4, <1>6

-----------------------------------------------------------------------------
(* All the rows.                                                           *)

\* Induction, for a set of natural numbers.
LEMMA NatInductionSet ==
  ASSUME NEW S \in SUBSET Nat, 0 \in S, \A n \in S : n + 1 \in S
  PROVE  S = Nat
<1> SUFFICES ASSUME Nat \ S # {} PROVE FALSE
  OBVIOUS
<1>1. PICK x \in Nat \ S : \A y \in Nat \ S : ~(<<y, x>> \in OpToRel(<, Nat))
  BY NatLessThanWellFounded, WFMin
<1>2. \A y \in Nat \ S : ~(y < x)
  BY <1>1 DEF OpToRel
<1>3. x # 0 /\ x - 1 \in Nat
  BY <1>2
<1>4. x - 1 \in S
  BY <1>2, <1>3
<1> QED  BY <1>2, <1>3, <1>4

\* The rows up to the row n.
AreRows(r, n, s) ==
  r = [k \in 0 .. n |-> IF k = 0 THEN s ELSE NextRow(r[k - 1])]

\* The rows exist: those that are there can be gone on with.
LEMMA RowsExist ==
  ASSUME NEW s, NEW n \in Nat
  PROVE  \E r : AreRows(r, n, s)
<1> DEFINE Good == {k \in Nat : \E r : AreRows(r, k, s)}
<1>1. 0 \in Good
  <2> DEFINE e == [k \in 0 .. 0 |-> s]
  <2>1. AreRows(e, 0, s)
    BY DEF AreRows
  <2> QED  BY <2>1
<1>2. ASSUME NEW m \in Good PROVE m + 1 \in Good
  <2>1. PICK r : AreRows(r, m, s)
    OBVIOUS
  <2> DEFINE h == [k \in 0 .. m + 1 |-> IF k = 0 THEN s ELSE NextRow(r[k - 1])]
  <2>2. \A k \in 0 .. m : h[k] = r[k]
    BY <2>1 DEF AreRows
  <2>3. \A k \in 0 .. m + 1 : k # 0 => k - 1 \in 0 .. m
    OBVIOUS
  <2>4. AreRows(h, m + 1, s)
    BY <2>2, <2>3 DEF AreRows
  <2>5. m + 1 \in Nat
    OBVIOUS
  <2> HIDE DEF h
  <2> QED  BY <2>4, <2>5
<1>3. Good = Nat
  <2> HIDE DEF Good
  <2>1. Good \in SUBSET Nat
    BY DEF Good
  <2> QED  BY <1>1, <1>2, <2>1, NatInductionSet
<1> QED  BY <1>3

LEMMA RowsAre == ASSUME NEW s PROVE AreRows(Rows(s), 128, s)
<1>1. Rows(s) = CHOOSE r : AreRows(r, 128, s)
  BY DEF Rows, AreRows
<1>2. 128 \in Nat
  OBVIOUS
<1>3. \E r : AreRows(r, 128, s)
  BY <1>2, RowsExist
<1> QED  BY <1>1, <1>3

\* Each of them has characters only, when the first one does.
LEMMA RowsChars ==
  ASSUME NEW s \in [Row -> Chars], NEW k \in 0 .. 128
  PROVE  Rows(s)[k] \in [Row -> Chars]
<1> DEFINE Good == {n \in Nat : n <= 128 => Rows(s)[n] \in [Row -> Chars]}
<1>0. \A n \in 0 .. 128 : Rows(s)[n] = IF n = 0 THEN s ELSE NextRow(Rows(s)[n - 1])
  BY RowsAre DEF AreRows
<1>1. 0 \in Good
  BY <1>0
<1>2. ASSUME NEW n \in Good PROVE n + 1 \in Good
  <2>1. CASE n + 1 <= 128
    <3>1. Rows(s)[n + 1] = NextRow(Rows(s)[n])
      BY <1>0, <2>1
    <3>2. Rows(s)[n] \in [Row -> Chars]
      BY <2>1
    <3> QED  BY <3>1, <3>2, TableNotLeft
  <2>2. CASE ~(n + 1 <= 128)
    BY <2>2
  <2> QED  BY <2>1, <2>2
<1>3. Good = Nat
  <2>1. Good \in SUBSET Nat
    OBVIOUS
  <2> HIDE DEF Good
  <2> QED  BY <1>1, <1>2, <2>1, NatInductionSet
<1> QED  BY <1>3

\* No sum of two neighbours is outside the table.
LEMMA RowsInTable ==
  ASSUME NEW s \in [Row -> Chars], NEW k \in 0 .. 127, NEW i \in Row
  PROVE  Rows(s)[k][i] + Rows(s)[k][Following(i)] \in 0 .. TableSize - 1
<1>1. k \in 0 .. 128
  OBVIOUS
<1> QED  BY Zenon, <1>1, RowsChars, TableNotLeft

LEMMA Element ==
  ASSUME NEW S, NEW q \in Seq(S), NEW i \in 1 .. Len(q)
  PROVE  q[i] \in S
OBVIOUS

\* nosohash_prefix gives characters.
LEMMA PrefixChars ==
  ASSUME NEW t \in ThreadIds
  PROVE  nosohash_prefix(t)[1] \in Chars /\ nosohash_prefix(t)[2] \in Chars
<1>1. t \in Nat /\ t < 8464
  BY SMT DEF ThreadIds, HASHEABLE_COUNT
<1>2. t \div 92 \in 0 .. 91 /\ t % 92 \in 0 .. 91
  BY SMT, <1>1
<1>3. \A i \in 0 .. 91 : HasheableChar(i) \in Chars
  BY SMT DEF HasheableChar, Chars
<1>4. HasheableChar(t \div 92) \in Chars /\ HasheableChar(t % 92) \in Chars
  BY Zenon, <1>2, <1>3
<1>5. nosohash_prefix(t) = <<HasheableChar(t \div 92), HasheableChar(t % 92)>>
  BY SMT DEF nosohash_prefix, HASHEABLE_COUNT
<1> HIDE DEF nosohash_prefix
<1> QED  BY SMT, <1>4, <1>5

LEMMA DigitChars ==
  ASSUME NEW n \in Nat, NEW i \in 1 .. 9
  PROVE  Digits(n)[i] \in Chars
<1>1. Powers[i] \in PowersOfTen
  BY SMT DEF Powers, PowersOfTen
<1> DEFINE d == (n % (10 * Powers[i])) \div Powers[i]
<1>2. d \in 0 .. 9
  BY Zenon, <1>1, FrontDigit
<1>3. Digits(n)[i] = 48 + d
  BY SMT DEF Digits
<1> HIDE DEF d
<1>4. 48 + d \in Chars
  BY SMT, <1>2 DEF Chars
<1> QED  BY Zenon, <1>3, <1>4

\* GetBase gives characters.
LEMMA BaseChars ==
  ASSUME NEW prefix \in Seq(33 .. 126), Len(prefix) = 3,
         NEW t \in ThreadIds, NEW n \in Nat
  PROVE  Base(prefix, t, n) \in [1 .. 18 -> Chars]
<1>1. \A i \in 1 .. 3 : prefix[i] \in Chars
  <2>1. \A i \in 1 .. 3 : i \in 1 .. Len(prefix)
    OBVIOUS
  <2>2. \A i \in 1 .. 3 : prefix[i] \in 33 .. 126
    BY Zenon, <2>1, Element
  <2>3. \A c \in 33 .. 126 : c \in Chars
    BY SMT DEF Chars
  <2> QED  BY Zenon, <2>2, <2>3
<1>2. nosohash_prefix(t)[1] \in Chars /\ nosohash_prefix(t)[2] \in Chars
  BY Zenon, PrefixChars
<1>3. \A i \in 1 .. 9 : ThreadPrefix(prefix, t)[i] \in Chars
  <2>1. SUFFICES ASSUME NEW i \in 1 .. 9 PROVE ThreadPrefix(prefix, t)[i] \in Chars
    OBVIOUS
  <2>2. CASE i <= 3
    BY SMT, <1>1, <2>2 DEF ThreadPrefix
  <2>3. CASE i \in {4, 5}
    BY SMT, <1>2, <2>3 DEF ThreadPrefix
  <2>4. CASE i > 5
    BY SMT, <2>4 DEF ThreadPrefix, Chars
  <2> QED  BY SMT, <2>2, <2>3, <2>4
<1>4. \A i \in 1 .. 9 : Digits(n)[i] \in Chars
  BY Zenon, DigitChars
<1>5. ASSUME NEW i \in 1 .. 18
      PROVE  (IF i <= 9 THEN ThreadPrefix(prefix, t)[i] ELSE Digits(n)[i - 9]) \in Chars
  BY SMT, <1>3, <1>4
<1> QED  BY SMT, <1>5 DEF Base

\* GetHash looks up nothing outside nosohash_chars_table, for any pool, thread,
\* counter and address: none of the sums of the 128 rows, nor of _pack; what it
\* hands to MD5 is 32 hexadecimal digits.
THEOREM HashStaysInTable ==
  ASSUME NEW prefix \in Seq(33 .. 126), Len(prefix) = 3,
         NEW t \in ThreadIds, NEW n \in Nat,
         NEW length \in {30, 31}, NEW address \in [1 .. length -> Chars],
         Len(address) = length
  PROVE  LET s == Start(Base(prefix, t, n), address)
         IN  /\ \A k \in 0 .. 127, i \in Row :
                  Rows(s)[k][i] + Rows(s)[k][Following(i)] \in 0 .. TableSize - 1
             /\ \A i \in 1 .. 32 : PackSum(StatRows(s), i) \in 0 .. TableSize - 1
             /\ Packed(prefix, t, n, address) \in [1 .. 32 -> 0 .. 15]
<1> DEFINE s == Start(Base(prefix, t, n), address)
<1>1. s \in [Row -> Chars]
  BY BaseChars, StartChars
<1> HIDE DEF s
<1>2. 128 \in 0 .. 128
  BY SMT
<1>3. StatRows(s) \in [Row -> Chars]
  BY Zenon, <1>1, <1>2, RowsChars DEF StatRows
<1>4. \A k \in 0 .. 127, i \in Row :
        Rows(s)[k][i] + Rows(s)[k][Following(i)] \in 0 .. TableSize - 1
  BY Zenon, <1>1, RowsInTable
<1>5. /\ \A i \in 1 .. 32 : PackSum(StatRows(s), i) \in 0 .. TableSize - 1
      /\ Pack(StatRows(s)) \in [1 .. 32 -> 0 .. 15]
  BY Zenon, <1>3, TableNotLeft
<1> QED  BY Zenon, <1>4, <1>5 DEF s, Packed
=============================================================================
