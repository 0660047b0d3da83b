--------------------------- MODULE MCInetCommand ----------------------------
(* The instances of InetCommand that TLC checks.                           *)
EXTENDS InetCommand

\* An answer with a last payment, one without, and one with the longer kind of
\* address; the numbers are short, and max_shares has one or two digits.
Answer(address, payment, shares) ==
  [lens |-> <<2, 3, address, 32, 32, 2, 1, 1,
              IF payment = << >> THEN 0 ELSE Characters(payment),
              1, 1, 1, 2, 1, 1, 1, shares>>,
   payment |-> payment]
MCAnswers == {Answer(30, <<2, 1, 2>>, 1), Answer(31, << >>, 2)}
=============================================================================
