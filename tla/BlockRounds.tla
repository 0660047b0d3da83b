----------------------------- MODULE BlockRounds ----------------------------
(***************************************************************************)
(* What the hand-over of blocks promises, without saying how.              *)
(*                                                                         *)
(* A pool and its threads work in rounds, one per target.  A round begins  *)
(* when no thread is at work and no share of an earlier round is left; a   *)
(* thread goes to work at most once before it reports, and the round ends  *)
(* when every thread has reported.  After a stop a round may end at once,  *)
(* and none begins.                                                        *)
(*                                                                         *)
(* In the code: a round is begun by NewTarget on the mine objects and      *)
(* ended by ResetMiningBlock (comm.cpp), to report is SetBlockSummary      *)
(* (mining.cpp) with a number of hashes.                                   *)
(***************************************************************************)
EXTENDS Integers

CONSTANTS
  Threads,  \* the mine threads of a pool
  Blocks    \* what a target is for

VARIABLES
  block,     \* the block of the current round, or of the last one
  open,      \* whether a round is on
  working,   \* the threads at work
  reported,  \* the threads that reported in this round, or were excused
  shares,    \* the blocks of the shares not answered yet
  stopped    \* no further round begins

rvars == <<block, open, working, reported, shares, stopped>>

RoundInit ==
  /\ block \in Blocks
  /\ open = FALSE /\ stopped = FALSE
  /\ working = {} /\ reported = {} /\ shares = {}

Begin ==
  /\ ~open /\ ~stopped
  /\ working = {} /\ shares = {}
  /\ open' = TRUE /\ block' \in Blocks /\ reported' = {}
  /\ UNCHANGED <<working, shares, stopped>>

Work(t) ==
  /\ open /\ ~stopped /\ t \notin working \cup reported
  /\ working' = working \cup {t}
  /\ UNCHANGED <<block, open, reported, shares, stopped>>

\* A thread that found a share: it is one of the current round.
Find(t) ==
  /\ t \in working
  /\ shares' = shares \cup {block}
  /\ UNCHANGED <<block, open, working, reported, stopped>>

\* A thread that leaves reports, or fails to.
Leave(t) ==
  /\ t \in working
  /\ working' = working \ {t}
  /\ reported' \in {reported, reported \cup {t}}
  /\ UNCHANGED <<block, open, shares, stopped>>

\* The pool answered: a share may be the last one of its block.
Answer ==
  /\ open
  /\ shares' \in SUBSET shares
  /\ UNCHANGED <<block, open, working, reported, stopped>>

\* Once stopped, the report of a thread is not waited for.
Excuse(t) ==
  /\ stopped /\ open
  /\ reported' = reported \cup {t}
  /\ UNCHANGED <<block, open, working, shares, stopped>>

End ==
  /\ open
  /\ stopped \/ reported = Threads
  /\ open' = FALSE /\ shares' = {}
  /\ reported' \in SUBSET reported
  /\ UNCHANGED <<block, working, stopped>>

Halt ==
  /\ ~stopped /\ stopped' = TRUE
  /\ UNCHANGED <<block, open, working, reported, shares>>

RoundNext ==
  \/ Begin
  \/ \E t \in Threads : Work(t) \/ Find(t) \/ Leave(t) \/ Excuse(t)
  \/ Answer \/ End \/ Halt

RoundSpec == RoundInit /\ [][RoundNext]_rvars
=============================================================================
