------------------------------ MODULE NosoHash ------------------------------
(***************************************************************************)
(* CNosoHasher and nosohash_prefix (hashing.cpp): the base that a thread   *)
(* hashes, and the hash of a base up to its MD5.                           *)
(*                                                                         *)
(* A character is its code.  _stat and _pack look up a table by the sum of *)
(* two or four characters; what keeps these sums inside the table is that  *)
(* the table gives characters again.                                       *)
(***************************************************************************)
EXTENDS Integers, Sequences

HASHEABLE_COUNT == 92

\* NOSOHASH_HASHEABLE_CHARS, from '!' to '~' without '('.
HasheableChar(i) == IF i < 7 THEN 33 + i ELSE 34 + i

\* The definitions named Bug... are plausible errors in the code.
Bug_nosohash_prefix(num) ==
  <<HasheableChar(num \div HASHEABLE_COUNT), HasheableChar(num \div HASHEABLE_COUNT)>>
\* What tells the thread num from the other threads of a pool.
nosohash_prefix(num) ==
  <<HasheableChar(num \div HASHEABLE_COUNT), HasheableChar(num % HASHEABLE_COUNT)>>

\* What NewTarget makes of the prefix of the pool, three characters: those of
\* the thread follow, and '!' up to nine.
ThreadPrefix(prefix, num) ==
  [i \in 1 .. 9 |-> IF i <= 3 THEN prefix[i]
                    ELSE IF i <= 5 THEN nosohash_prefix(num)[i - 3] ELSE 33]

Powers == <<100000000, 10000000, 1000000, 100000, 10000, 1000, 100, 10, 1>>

\* The digits that _itoa writes: the last nine of n.
Digits(n) ==
  [i \in 1 .. 9 |-> 48 + ((n % (10 * Powers[i])) \div Powers[i])]

\* GetBase: what a thread hashes in its step n of a block.
Base(prefix, num, n) ==
  [i \in 1 .. 18 |-> IF i <= 9 THEN ThreadPrefix(prefix, num)[i]
                               ELSE Digits(n)[i - 9]]

-----------------------------------------------------------------------------
(* The hash.                                                               *)

\* nosohash_chars_table, which ends with the sum of four '~'.
TableSize == 505
CharsTable(sum) == IF sum < 32 THEN 0 ELSE 32 + ((sum - 32) % 95)

Row == 1 .. 128
Filler == <<37, 41, 43, 47, 53, 59, 61, 67, 71, 73, 79, 83, 89, 97, 101, 103, 107>>

\* What _init and _itoa leave in m_stat: the base, the address, and the filler
\* over and over.
Start(base, address) ==
  [i \in Row |->
     IF i <= 18 THEN base[i]
     ELSE IF i <= 18 + Len(address) THEN address[i - 18]
     ELSE Filler[((i - 19 - Len(address)) % 17) + 1]]

\* The character after the one at i; behind the last one is a copy of what the
\* first one was when the row began.
Following(i) == (i % 128) + 1

\* A row of _stat: each character and the one after it become one.
NextRow(s) == [i \in Row |-> CharsTable(s[i] + s[Following(i)])]

\* All the rows, from the first one s; row k is what _stat has made in k steps.
Rows(s) ==
  LET row[k \in 0 .. 128] == IF k = 0 THEN s ELSE NextRow(row[k - 1])
  IN row

StatRows(s) == Rows(s)[128]

\* The sum that _pack looks up for the digit i of the hash.
PackSum(s, i) == s[4 * i - 3] + s[4 * i - 2] + s[4 * i - 1] + s[4 * i]
Pack(s) == [i \in 1 .. 32 |-> CharsTable(PackSum(s, i)) % 16]

\* What _md5d goes on from; MD5 itself is not modelled.
Packed(prefix, num, n, address) ==
  Pack(StatRows(Start(Base(prefix, num, n), address)))

\* _diff: the distance of a hash to the target, digit by digit.
Diff(hash, target) ==
  [i \in 1 .. 32 |-> IF hash[i] < target[i] THEN target[i] - hash[i]
                                            ELSE hash[i] - target[i]]
=============================================================================
