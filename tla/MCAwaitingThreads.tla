------------------------- MODULE MCAwaitingThreads --------------------------
(* The instances of AwaitingThreads that TLC checks.                       *)
EXTENDS AwaitingThreads

\* The exit handler on the main thread.
OnMain == {Main}
=============================================================================
