----------------------------- MODULE BlockClock -----------------------------
(***************************************************************************)
(* The block clock of noso-2m.hpp.  A NOSO block lasts Period seconds of   *)
(* wall-clock time (600), counted from the epoch; shares of a block are    *)
(* computed and submitted while the age of the block is First..Last        *)
(* (10..585), the "inner mining period".  All the threads of the program   *)
(* read this one clock, and nothing else tells them that a block ended.    *)
(***************************************************************************)
EXTENDS Integers

CONSTANTS
  Period,  \* seconds of a block, 600 in the macros
  First,   \* first second of the inner mining period, 10
  Last     \* last second of the inner mining period, 585

ASSUME ClockAssumption ==
  /\ Period \in Nat /\ First \in Nat /\ Last \in Nat
  /\ 0 < First /\ First <= Last /\ Last + 1 < Period

\* NOSO_BLOCK_AGE
Age(t) == t % Period

\* NOSO_BLOCK_AGE_INNER_MINING_PERIOD
Inner(t) == First <= Age(t) /\ Age(t) <= Last

\* NOSO_BLOCK_AGE_BEFORE_MINING_PERIOD, NOSO_BLOCK_AGE_BEHIND_MINING_PERIOD
Before(t) == First > Age(t)
Behind(t) == Age(t) > Last

\* NOSO_BLOCK_AGE_OUTER_MINING_PERIOD
Outer(t) == Before(t) \/ Behind(t)

-----------------------------------------------------------------------------
\* When the timed waits give up.  The code passes a number of seconds to
\* wait_for; these are the instants the numbers stand for when they are
\* computed at t: "( BEHIND ? 600 - AGE + 10 : 10 - AGE ) + 1" after t, ...
UntilInner(t) == t + (IF Behind(t) THEN Period - Age(t) + First
                                   ELSE First - Age(t)) + 1

\* ... and "( 585 - AGE ) + 1" after t.
UntilOuter(t) == t + (Last - Age(t)) + 1
=============================================================================
