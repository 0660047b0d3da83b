-------------------------- MODULE ShareSubmission ---------------------------
(***************************************************************************)
(* The shares of one pool on their way: SubmitPoolSolution and             *)
(* SubmitSolution (comm.cpp), the connections below them (inet.cpp), and   *)
(* the pool, which keeps the shares it accepts.                            *)
(*                                                                         *)
(* Each try is a connection of its own.  A request may be lost, or reach   *)
(* the pool after the miner gave up; an answer may be lost, arrive in      *)
(* part, or come when nobody waits for it.  The miner tries again with the *)
(* same share, and the pool knows a share it has accepted.                 *)
(*                                                                         *)
(* BlockMining has the outcomes of a submission only, and the threads      *)
(* around it; here the mine threads just find shares, and a block ends for *)
(* the comm thread when it has left SubmitPoolSolution.                    *)
(***************************************************************************)
EXTENDS Integers, Sequences, FiniteSets, Functions

CONSTANTS
  Ids,          \* what tells the shares of a block apart: their bases
  Retries,      \* DEFAULT_POOL_RETRIES_COUNT
  SharesLimit,  \* g_pool_shares_limit, not 0
  PoolLimits,   \* what the pool may announce as max_shares with a target
  MaxBlock      \* bound of the model: the last block

ASSUME SubmissionAssumption ==
  /\ Retries \in Nat /\ SharesLimit \in Nat \ {0}
  /\ PoolLimits \subseteq Nat /\ MaxBlock \in Nat

VARIABLES
  running,   \* g_still_running
  inner,     \* NOSO_BLOCK_AGE_INNER_MINING_PERIOD
  pc,        \* where the comm thread is
  blck,      \* the block of its target
  maxShares, \* max_shares of its target
  queue,     \* m_pool_solutions
  share,     \* solution
  tries,     \* tries_count
  accepted,  \* m_accepted_solutions_count
  reached,   \* m_reached_pool_max_shares
  banned,    \* m_been_banded_by_pool
  requests,  \* on their way to the pool, by a connection open or given up
  answers,   \* on their way back, by the connection that is open
  poolBlck,  \* the block of the pool
  taken,     \* the shares the pool has accepted
  \* history: what became of the shares of the target; unheard: a try of theirs
  \* was sent and not answered
  found, credited, refused, unheard

commVars == <<blck, maxShares, queue, share, tries, accepted, reached, banned>>
poolVars == <<requests, answers, poolBlck, taken>>
pastVars == <<found, credited, refused, unheard>>
vars == <<running, inner, pc, commVars, poolVars, pastVars>>

Shares == [blck : 0 .. MaxBlock, id : Ids]
NoShare == [blck |-> -1]

\* What SubmitPoolSolution tells apart: "True", "False <number>" by whether
\* the number is a ban, and "False SHARES_LIMIT".
Verdicts == {"true", "false", "ban", "limit"}

\* The definitions named Bug... are plausible errors in the code; the properties
\* below refuse them.

BugClosed == requests
\* The requests when inet_command has closed its connection: what comes back
\* from now on reaches nobody.
Closed == {[r EXCEPT !.open = FALSE] : r \in requests}

BugPutBack == queue
\* m_pool_solutions after the AddSolution of a share that failed.
PutBack == Append(queue, share)

BugNewAccepted(v) == accepted + 1
\* m_accepted_solutions_count after the verdict v.
NewAccepted(v) == IF v = "true" THEN accepted + 1 ELSE accepted

BugSolutionsLeft == queue
\* m_pool_solutions after ResetMiningBlock.
SolutionsLeft == << >>

BugReachedMaxShares == reached \/ accepted > SharesLimit
ReachedMaxShares == reached \/ accepted >= SharesLimit

-----------------------------------------------------------------------------
Init ==
  /\ running = TRUE /\ inner = TRUE
  /\ pc = "loop" /\ blck = 0 /\ maxShares \in PoolLimits
  /\ queue = << >> /\ share = NoShare /\ tries = 0
  /\ accepted = 0 /\ reached = FALSE /\ banned = FALSE
  /\ requests = {} /\ answers = {} /\ poolBlck = 0 /\ taken = {}
  /\ found = {} /\ credited = {} /\ refused = {} /\ unheard = {}

-----------------------------------------------------------------------------
(* The miner.                                                              *)

\* A mine thread adds a share of the target.
AddSolution ==
  /\ pc # "top" /\ pc # "ended"
  /\ \E s \in Shares \ found :
       /\ s.blck = blck
       /\ found' = found \cup {s}
       /\ queue' = Append(queue, s)
  /\ UNCHANGED <<running, inner, pc, blck, maxShares, share, tries, accepted,
                 reached, banned, poolVars, credited, refused, unheard>>

GetSolution ==
  /\ pc = "loop" /\ running /\ inner /\ queue # << >>
  /\ share' = queue[Len(queue)]
  /\ queue' = SubSeq(queue, 1, Len(queue) - 1)
  /\ tries' = 0
  /\ pc' = "try"
  /\ UNCHANGED <<running, inner, blck, maxShares, accepted, reached, banned,
                 poolVars, pastVars>>

BugMayTry == running /\ inner /\ tries <= Retries
MayTry == running /\ inner /\ tries < Retries

\* No connection, or nothing sent: "Poor connection", and another try.
NotSent ==
  /\ pc = "try" /\ MayTry
  /\ tries' = tries + 1
  /\ UNCHANGED <<running, inner, pc, blck, maxShares, queue, share, accepted,
                 reached, banned, poolVars, pastVars>>

Send ==
  /\ pc = "try" /\ MayTry
  /\ requests' = requests \cup {[share |-> share, open |-> TRUE]}
  /\ pc' = "wait"
  /\ UNCHANGED <<running, inner, blck, maxShares, queue, share, tries, accepted,
                 reached, banned, answers, poolBlck, taken, pastVars>>

\* inet_recv gives up or fails, or what it read is too short to be understood;
\* the connection is closed.
NoAnswer ==
  /\ pc = "wait"
  /\ tries' = tries + 1
  /\ answers' = {} /\ requests' = Closed
  /\ unheard' = unheard \cup {share}
  /\ pc' = "try"
  /\ UNCHANGED <<running, inner, blck, maxShares, queue, share, accepted,
                 reached, banned, poolBlck, taken, found, credited, refused>>

\* An answer that is understood: SubmitSolution counts it, and the submitting
\* loop goes on, or rests until the end of the block.
Answered ==
  /\ pc = "wait"
  /\ \E v \in answers :
       /\ accepted' = NewAccepted(v)
       /\ reached' = \/ reached \/ v = "limit"
                     \/ v = "true" /\ accepted' >= maxShares
       /\ banned' = (banned \/ v = "ban")
       /\ IF v = "true"
            THEN credited' = credited \cup {share} /\ UNCHANGED refused
            ELSE refused' = refused \cup {share} /\ UNCHANGED credited
  /\ answers' = {} /\ requests' = Closed
  /\ share' = NoShare
  /\ pc' = IF banned' \/ ReachedMaxShares' THEN "rest" ELSE "loop"
  /\ UNCHANGED <<running, inner, blck, maxShares, queue, tries, poolBlck,
                 taken, found, unheard>>

\* The first 9 to 17 characters of "False SHARES_LIMIT": std::stoul throws,
\* nobody catches, the program is over.
Terminate ==
  /\ pc = "wait"
  /\ "limit" \in answers
  /\ pc' = "ended"
  /\ UNCHANGED <<running, inner, commVars, poolVars, pastVars>>

\* -1: the share goes back.
Failed ==
  /\ pc = "try" /\ ~MayTry
  /\ queue' = PutBack
  /\ share' = NoShare
  /\ pc' = "loop"
  /\ UNCHANGED <<running, inner, blck, maxShares, tries, accepted, reached,
                 banned, poolVars, pastVars>>

\* The submitting loop ends, and ResetMiningBlock.
Close ==
  /\ pc \in {"loop", "rest"}
  /\ ~running \/ ~inner \/ banned
  /\ accepted' = 0 /\ reached' = FALSE /\ queue' = SolutionsLeft
  /\ pc' = IF banned \/ ~running THEN "ended" ELSE "top"
  /\ UNCHANGED <<running, inner, blck, maxShares, share, tries, banned,
                 poolVars, pastVars>>

\* The next target, the one of the pool.  (A target that comes when the inner
\* period is over, which no share is found for, is in BlockMining.)
GetTarget ==
  /\ pc = "top" /\ running /\ inner
  /\ poolBlck # blck
  /\ blck' = poolBlck /\ maxShares' \in PoolLimits
  /\ pc' = "loop"
  /\ found' = {} /\ credited' = {} /\ refused' = {} /\ unheard' = {}
  /\ UNCHANGED <<running, inner, queue, share, tries, accepted, reached,
                 banned, poolVars>>

Communicate ==
  \/ GetSolution \/ NotSent \/ Send \/ NoAnswer \/ Answered \/ Terminate
  \/ Failed \/ Close \/ GetTarget

-----------------------------------------------------------------------------
(* The pool, the network and the rest.                                     *)

TakenOf(b) == {s \in taken : s.blck = b}

\* What the pool may say of the share s: it accepts a new share of its block
\* as long as it accepts any, or refuses it for a reason of its own.  (A share
\* of its block is one of the target, with the limit announced with it.)
PoolVerdicts(s) ==
  IF s.blck # poolBlck \/ s \in taken THEN {"false", "ban"}
  ELSE IF Cardinality(TakenOf(poolBlck)) >= maxShares THEN {"limit", "ban"}
  ELSE {"true", "false", "ban"}

\* The pool answers a request; the answer is lost if its connection is closed.
\* A request given up may be there more than once; one that is lost is one the
\* pool does not answer.
PoolAnswer ==
  /\ \E r \in requests, v \in Verdicts :
       /\ v \in PoolVerdicts(r.share)
       /\ \/ requests' = requests \ {r}
          \/ ~r.open /\ UNCHANGED requests
       /\ taken' = IF v = "true" THEN taken \cup {r.share} ELSE taken
       /\ answers' = IF r.open THEN answers \cup {v} ELSE answers
  /\ UNCHANGED <<running, inner, pc, commVars, poolBlck, pastVars>>

\* The inner period ends; the next one is of the next block, even for a
\* comm thread that is still in SubmitPoolSolution.
EndInner ==
  /\ inner /\ inner' = FALSE
  /\ UNCHANGED <<running, pc, commVars, poolVars, pastVars>>

StartInner ==
  /\ ~inner /\ inner' = TRUE
  /\ poolBlck < MaxBlock /\ poolBlck' = poolBlck + 1
  /\ UNCHANGED <<running, pc, commVars, requests, answers, taken, pastVars>>

Stop ==
  /\ running /\ running' = FALSE
  /\ UNCHANGED <<inner, pc, commVars, poolVars, pastVars>>

Next ==
  \/ Communicate \/ AddSolution
  \/ PoolAnswer
  \/ EndInner \/ StartInner \/ Stop

Spec == Init /\ [][Next]_vars

-----------------------------------------------------------------------------
(* Properties.                                                             *)

\* The types of the variables; a share is tried Retries times at most.
TypeOK ==
  /\ running \in BOOLEAN /\ inner \in BOOLEAN
  /\ pc \in {"top", "loop", "try", "wait", "rest", "ended"}
  /\ blck \in 0 .. MaxBlock /\ poolBlck \in 0 .. MaxBlock
  /\ maxShares \in PoolLimits
  /\ queue \in Seq(Shares) /\ share \in Shares \cup {NoShare}
  /\ tries \in 0 .. Retries /\ accepted \in Nat
  /\ reached \in BOOLEAN /\ banned \in BOOLEAN
  /\ requests \subseteq [share : Shares, open : BOOLEAN]
  /\ answers \subseteq Verdicts
  /\ taken \subseteq Shares /\ found \subseteq Shares
  /\ credited \subseteq Shares /\ refused \subseteq Shares
  /\ unheard \subseteq Shares

\* What the miner counts as accepted the pool has accepted: no answer is taken
\* for the one to another share, or to an earlier try.
CreditedIsTaken == credited \subseteq TakenOf(blck)

\* m_accepted_solutions_count counts each accepted share once, however often
\* it was sent.
AcceptedCounted ==
  pc \in {"loop", "try", "wait", "rest"} => accepted = Cardinality(credited)

\* While its block is mined, a share is in one place: it waits, it is being
\* submitted, or the pool has answered it.  None is lost or doubled, whatever
\* fails.
SharesKept ==
  pc \in {"loop", "try", "wait", "rest"} =>
    /\ found = Range(queue) \cup ({share} \ {NoShare}) \cup credited \cup refused
    /\ Cardinality(found) = Len(queue) + Cardinality({share} \ {NoShare})
                            + Cardinality(credited) + Cardinality(refused)

\* The pool has no more shares of a block than --shares, and one for each share
\* that was sent and not answered: comm.cpp:445 counts the acceptances received,
\* so that a lost one lets the next share through, but nothing else does.
TakenWithinLimit ==
  Cardinality(TakenOf(blck)) <= SharesLimit + Cardinality(unheard)

-----------------------------------------------------------------------------
(* The ledger of the shares, which knows neither tries nor connections.    *)

Phase == IF pc = "top" THEN "closed" ELSE IF pc = "ended" THEN "over" ELSE "open"

Ledger == INSTANCE ShareLedger WITH
  Blocks   <- 0 .. MaxBlock,
  phase    <- Phase,
  block    <- blck,
  all      <- found,
  waiting  <- IF pc = "ended" THEN {} ELSE Range(queue),
  underway <- {share} \ {NoShare},
  good     <- credited,
  bad      <- refused,
  kept     <- taken

\* However often a share is sent, and whatever is lost, late or doubled on the
\* way, SubmitPoolSolution decides it once, as accepted only if the pool has
\* accepted it; and the pool has no share that was not found for the block it
\* accepted it in.
LedgerKept == Ledger!LedgerSpec
=============================================================================
