----------------------------- MODULE PoolStatus -----------------------------
(***************************************************************************)
(* CPoolStatus (comm.cpp): what is made of the first characters of an      *)
(* answer to SOURCE.                                                       *)
(*                                                                         *)
(* An answer is the sequence of the lengths of its tokens, which one space *)
(* separates; "\r\n" follows.  What a token says is left out: only where   *)
(* it stands in the answer counts, and how much of it there is.            *)
(***************************************************************************)
EXTENDS Integers, SequencesExt

\* The tokens as the pool sends them; the fee is there twice.
Order == <<"OK", "prefix", "address", "mn_diff", "lb_hash", "blck_no",
           "till_balance", "till_payment", "payment_info", "pool_hashrate",
           "mnet_hashrate", "pool_fee", "utc_time", "num_miners", "pool_fee",
           "sum_amount", "max_shares">>

\* Where the token i begins: after the space behind the one before it.
Start(lens, i) ==
  LET start[k \in DOMAIN lens] ==
        IF k = 1 THEN 0 ELSE start[k - 1] + lens[k - 1] + 1
  IN start[i]

Characters(lens) == Start(lens, Len(lens)) + lens[Len(lens)]

\* The token that the call number n, from 0, of next_status_token finds in the
\* first m characters.  After the last token the position is npos, and
\* npos + 1 = 0: the first token comes again.
TokenAt(lens, m, n) ==
  (n % Cardinality({i \in DOMAIN lens : Start(lens, i) <= m})) + 1

\* How much of the token i there is in them.
LengthIn(lens, m, i) ==
  IF m - Start(lens, i) < lens[i] THEN m - Start(lens, i) ELSE lens[i]

Token(lens, m, n) ==
  [at |-> TokenAt(lens, m, n), len |-> LengthIn(lens, m, TokenAt(lens, m, n))]

BugFieldNo ==
  [prefix |-> 1, address |-> 2, mn_diff |-> 3, lb_hash |-> 4, blck_no |-> 5,
   till_balance |-> 6, till_payment |-> 7, payment_info |-> 8,
   pool_hashrate |-> 9, mnet_hashrate |-> 10, pool_fee |-> 11, utc_time |-> 12,
   num_miners |-> 13, sum_amount |-> 14, max_shares |-> 15]
\* Which call each field is taken from: the second fee is skipped.
FieldNo ==
  [prefix |-> 1, address |-> 2, mn_diff |-> 3, lb_hash |-> 4, blck_no |-> 5,
   till_balance |-> 6, till_payment |-> 7, payment_info |-> 8,
   pool_hashrate |-> 9, mnet_hashrate |-> 10, pool_fee |-> 11, utc_time |-> 12,
   num_miners |-> 13, sum_amount |-> 15, max_shares |-> 16]

Field(lens, m, f) == Token(lens, m, FieldNo[f])

\* std::stoul reads the digits a token begins with, and throws if there are
\* none.  A prefix and a hash may begin with a digit; "OK" and an address do not.
IsNumber(token) == token.len > 0 /\ Order[token.at] \notin {"OK", "address"}

NumberFields ==
  DOMAIN FieldNo \ {"prefix", "address", "mn_diff", "lb_hash", "payment_info"}

\* The last payment, "block:amount:order", is taken apart the same way.
PaymentRead(token, payment) ==
  \/ token.len = 0
  \/ /\ IsNumber(token)
     /\ Order[token.at] = "payment_info" =>
          \A n \in {0, 1} : Token(payment, token.len, n).len > 0

\* The constructor does not throw on the first m characters.
Understood(lens, payment, m) ==
  /\ Field(lens, m, "prefix").len = 3
  /\ Field(lens, m, "address").len \in {30, 31}
  /\ Field(lens, m, "mn_diff").len = 32
  /\ Field(lens, m, "lb_hash").len = 32
  /\ \A f \in NumberFields : IsNumber(Field(lens, m, f))
  /\ PaymentRead(Field(lens, m, "payment_info"), payment)

Status(lens, m) == [f \in DOMAIN FieldNo |-> Field(lens, m, f)]
=============================================================================
