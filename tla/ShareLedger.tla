---------------------------- MODULE ShareLedger -----------------------------
(***************************************************************************)
(* What the submission of shares promises, without saying how a share gets *)
(* to the pool.                                                            *)
(*                                                                         *)
(* A share that is found waits, is taken to be submitted, one at a time,   *)
(* and comes back to wait, or is decided: once, and as accepted only if    *)
(* the pool has accepted it.  The pool accepts shares that were found for  *)
(* the block of the target.  A block closes when nothing is being          *)
(* submitted, with no share left; the next one is a later one.             *)
(*                                                                         *)
(* In the code: AddSolution, GetSolution and SubmitPoolSolution with all   *)
(* its tries (comm.cpp), below it the connections (inet.cpp).              *)
(***************************************************************************)
EXTENDS Integers

CONSTANTS
  Shares,   \* the shares there may be, each with its blck
  Blocks    \* the numbers of blocks

VARIABLES
  phase,     \* of the block: "open", "closed"; "over" when the thread has ended
  block,     \* the block of the target
  all,       \* the shares found for it
  waiting,   \* those not submitted yet
  underway,  \* the one being submitted, if any
  good, bad, \* those decided: accepted, and not
  kept       \* what the pool has accepted, of any block

lvars == <<phase, block, all, waiting, underway, good, bad, kept>>

LedgerInit ==
  /\ phase = "open" /\ block \in Blocks
  /\ all = {} /\ waiting = {} /\ underway = {} /\ good = {} /\ bad = {}
  /\ kept = {}

Find(s) ==
  /\ phase = "open" /\ s.blck = block /\ s \notin all
  /\ all' = all \cup {s} /\ waiting' = waiting \cup {s}
  /\ UNCHANGED <<phase, block, underway, good, bad, kept>>

Take(s) ==
  /\ phase = "open" /\ s \in waiting /\ underway = {}
  /\ waiting' = waiting \ {s} /\ underway' = {s}
  /\ UNCHANGED <<phase, block, all, good, bad, kept>>

\* The pool accepts a share, perhaps by a request that was given up, and of a
\* share that waits, or was decided, meanwhile.
PoolKeeps(s) ==
  /\ s \in all \ kept
  /\ kept' = kept \cup {s}
  /\ UNCHANGED <<phase, block, all, waiting, underway, good, bad>>

Accept(s) ==
  /\ underway = {s} /\ s \in kept \ good
  /\ good' = good \cup {s} /\ underway' = {}
  /\ UNCHANGED <<phase, block, all, waiting, bad, kept>>

Refuse(s) ==
  /\ underway = {s} /\ s \notin good \cup bad
  /\ bad' = bad \cup {s} /\ underway' = {}
  /\ UNCHANGED <<phase, block, all, waiting, good, kept>>

PutBack(s) ==
  /\ underway = {s} /\ s \notin waiting
  /\ waiting' = waiting \cup {s} /\ underway' = {}
  /\ UNCHANGED <<phase, block, all, good, bad, kept>>

\* A share that is being submitted is given up only with the whole program.
Close ==
  /\ phase = "open"
  /\ phase' \in {"closed", "over"}
  /\ waiting' = {}
  /\ underway' = underway /\ (underway # {} => phase' = "over")
  /\ UNCHANGED <<block, all, good, bad, kept>>

Open ==
  /\ phase = "closed"
  /\ phase' = "open"
  /\ block' \in Blocks /\ block' > block
  /\ all' = {} /\ good' = {} /\ bad' = {}
  /\ UNCHANGED <<waiting, underway, kept>>

LedgerNext ==
  \/ \E s \in Shares :
       Find(s) \/ Take(s) \/ PoolKeeps(s) \/ Accept(s) \/ Refuse(s) \/ PutBack(s)
  \/ Close \/ Open

LedgerSpec == LedgerInit /\ [][LedgerNext]_lvars
=============================================================================
