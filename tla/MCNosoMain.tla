----------------------------- MODULE MCNosoMain -----------------------------
(* The instances of NosoMain, and of Options, that TLC checks.             *)
EXTENDS NosoMain

\* No number, 0, the default, another one; one that is cut to 0, and the first
\* one out of range, when W is 4.
MCNumbers == {NoNumber, 0, 1, 2, 4, 16}

\* No pool, the default, two pools with a word between them that is none, and
\* no pool but that word.
MCPoolLists == {<< >>, <<"f04ever">>, <<"f04ever", "bad", "devnoso">>, <<"bad">>}
=============================================================================
