------------------------------ MODULE MCTextUI ------------------------------
(* The instance of TextUI that TLC checks.                                 *)
EXTENDS TextUI

\* For the log window one line less than none, one line and two, on both sides
\* of what is cramped and less than a page with PageRows 3, and seven.
MCHeights == {13, 15, 16, 21}
=============================================================================
