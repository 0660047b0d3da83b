----------------------------- MODULE BlockMining ----------------------------
(***************************************************************************)
(* One pool of noso-2m: the thread that talks to the pool                  *)
(* (CCommThread::Communicate, comm.cpp) and the mine threads it owns       *)
(* (CMineThread::Mine, mining.cpp), block after block.                     *)
(*                                                                         *)
(* The comm thread obtains a target, hands it to its mine objects one by   *)
(* one (NewTarget), and submits the shares the mine threads put in         *)
(* m_pool_solutions.  All of them stop on their own when the block clock   *)
(* leaves the inner mining period; the comm thread then collects a summary *)
(* of each mine object (GetBlockSummary blocks until it is there), resets  *)
(* the counters of the block and starts again.                             *)
(*                                                                         *)
(* The fields of CMineThread that a target fills (m_blck_no, m_lb_hash,    *)
(* m_mn_diff, m_prefix, m_address, the hasher) are written under           *)
(* m_mutex_blck_no and read without it while mining: only the hand-over    *)
(* protocol keeps the two apart.  A block, its hash and its number are one *)
(* here: the number of the last block of the chain, as the pool reports it.*)
(*                                                                         *)
(* A wait on a condition variable is a guard here: it ends at any moment   *)
(* its predicate holds, or its time is over.                               *)
(***************************************************************************)
EXTENDS BlockClock, Sequences, Functions

CONSTANTS
  ThreadsCount,  \* g_pool_threads_count
  SharesLimit,   \* g_pool_shares_limit; 0 is "no limit of our own"
  DefaultShares, \* DEFAULT_POOL_SHARES_LIMIT
  MaxShares,     \* the values of max_shares a pool may announce
  Retries,       \* DEFAULT_POOL_RETRIES_COUNT
  Prompt         \* whether the threads keep up with the clock: see Tick

CONSTANTS        \* bounds of the model only
  MaxHashes,     \* hashes of one thread in one block
  MaxTime        \* the instant the clock stops at

ASSUME MiningAssumption ==
  /\ ThreadsCount \in Nat \ {0}
  /\ SharesLimit \in Nat /\ DefaultShares \in Nat /\ Retries \in Nat
  /\ MaxShares \subseteq Nat /\ Prompt \in BOOLEAN
  /\ MaxHashes \in Nat /\ MaxTime \in Nat

VARIABLES
  now,          \* seconds of wall-clock time
  poolBlck,     \* the last block of the chain, as the pool knows it
  running,      \* g_still_running
  \* locals of Communicate and of the functions it calls
  cpc,          \* where the comm thread is
  obj,          \* next mine object of the loop over m_mine_objects
  tries,        \* tries_count of GetPoolTargetRetrying
  prevBlck,     \* prev_lb_hash
  target,       \* the target being mined
  solution,     \* the solution being submitted
  cDeadline,    \* when its timed wait gives up
  \* members of CCommThread
  solutions,    \* m_pool_solutions
  accepted,     \* m_accepted_solutions_count
  reached,      \* m_reached_pool_max_shares
  banned,       \* m_been_banded_by_pool
  poolMax,      \* m_pool_max_shares
  lastHashes,   \* m_last_block_hashes_count
  \* the mine objects, one of each per thread
  mpc,          \* where the mine thread is
  blckNo,       \* m_blck_no; 0 is "no target"
  counter,      \* hashes_counter
  computed,     \* m_computed_hashes_count
  mDeadline     \* when its timed wait gives up

clockVars  == <<now, poolBlck>>
localVars  == <<obj, tries, prevBlck, target, solution, cDeadline>>
countVars  == <<accepted, reached, banned>>
poolVars   == <<poolMax, lastHashes>>
minerVars  == <<mpc, blckNo, counter, computed, mDeadline>>
vars == <<clockVars, running, cpc, localVars, solutions, countVars, poolVars,
          minerVars>>

Miners == 0 .. ThreadsCount - 1

NoBlck     == -1                            \* NOSO_NUL_HASH
NoTarget   == [blck |-> NoBlck, max |-> 0]
NoSolution == [blck |-> 0, thread |-> 0, nonce |-> 0]  \* a block is never 0

\* What a pool answers to SOURCE: its last block and its limit of shares.
Targets == [blck : Nat, max : Nat]

\* CSolution: a share is identified by its base, the prefix of the thread and
\* a number of its own; blck is the block it is submitted for.
Solutions == [blck : Nat, thread : Nat, nonce : Nat]

CommPcs == {"top", "await inner", "get", "await outer", "hand", "loop",
            "submit", "check", "rest", "close", "join", "ended"}
MinePcs == {"wait", "mine", "hash", "rest", "summary", "done", "exited"}

-----------------------------------------------------------------------------
(* Small operators the actions are built from, with the mutated form of    *)
(* each that some run refutes (Bug...).                                    *)

BugReachedMaxShares ==
  \/ reached
  \/ ~ \/ SharesLimit <= 0 /\ accepted <= poolMax
       \/ SharesLimit > 0 /\ accepted <= SharesLimit

BugPoolMaxShares ==
  ~ \/ SharesLimit <= 0 /\ accepted <= poolMax
    \/ SharesLimit > 0 /\ accepted < SharesLimit

\* CCommThread::ReachedMaxShares
ReachedMaxShares ==
  \/ reached
  \/ ~ \/ SharesLimit <= 0 /\ accepted <= poolMax
       \/ SharesLimit > 0 /\ accepted < SharesLimit

BugTargetReady(m) == blckNo[m] > 0

\* The predicate WaitTarget waits for.
TargetReady(m) == ~running \/ blckNo[m] > 0

BugSummaryReady(m) == TRUE
BugSummaryAwaited(m) == ~running \/ computed[m] > 1

\* The predicate GetBlockSummary waits for.
SummaryReady(m) == ~running \/ computed[m] > 0

BugSummaryLeft(m) == computed[m]

\* What GetBlockSummary leaves in m_computed_hashes_count.
SummaryLeft(m) == 0

BugSolutionsLeft == solutions

\* What ClearSolutions leaves in m_pool_solutions.
SolutionsLeft == << >>

BugPopped == solutions

\* m_pool_solutions after the pop_back of GetSolution.
Popped == SubSeq(solutions, 1, Len(solutions) - 1)

BugMayRetry == tries <= Retries

\* Whether GetPoolTargetRetrying has a try left.
MayRetry == tries < Retries

BugMustAwaitInner == FALSE

\* Whether Communicate rests before it asks for a target.
MustAwaitInner == Outer(now)

\* The predicates of the timed waits, with their timeout.
InnerOrOver == ~running \/ Inner(now) \/ now >= cDeadline
OuterOrOver(deadline) == ~running \/ Outer(now) \/ now >= deadline

-----------------------------------------------------------------------------
Init ==
  /\ now \in 0 .. Period - 1
  /\ poolBlck = 0
  /\ running = TRUE
  /\ cpc = "top" /\ obj = 0 /\ tries = 0
  /\ prevBlck = NoBlck /\ target = NoTarget /\ solution = NoSolution
  /\ cDeadline = 0
  /\ solutions = << >>
  /\ accepted = 0 /\ reached = FALSE /\ banned = FALSE
  /\ poolMax = DefaultShares /\ lastHashes = 0
  /\ mpc = [m \in Miners |-> "wait"]
  /\ blckNo = [m \in Miners |-> 0]
  /\ counter = [m \in Miners |-> 0]
  /\ computed = [m \in Miners |-> 0]
  /\ mDeadline = [m \in Miners |-> 0]

-----------------------------------------------------------------------------
(* The comm thread.                                                        *)

\* while ( g_still_running ) { if ( OUTER ) ... of Communicate.
Top ==
  /\ cpc = "top"
  /\ cpc' = IF ~running THEN "join"
            ELSE IF MustAwaitInner THEN "await inner" ELSE "get"
  /\ cDeadline' = IF cpc' = "await inner" THEN UntilInner(now) ELSE cDeadline
  /\ tries' = 0
  /\ UNCHANGED <<clockVars, running, obj, prevBlck, target, solution,
                 solutions, countVars, poolVars, minerVars>>

\* The end of the rest until the inner mining period.
AwaitedInner ==
  /\ cpc = "await inner"
  /\ InnerOrOver
  /\ cpc' = IF running THEN "get" ELSE "join"
  /\ UNCHANGED <<clockVars, running, localVars, solutions, countVars,
                 poolVars, minerVars>>

\* GetTarget returns the target t.
GotTarget(t) ==
  IF ~running
    THEN cpc' = "join" /\ UNCHANGED <<target, prevBlck, obj>>
    ELSE /\ cpc' = "hand"
         /\ target' = t
         /\ prevBlck' = t.blck
         /\ obj' = 0

\* An answer to SOURCE.  GetTarget asks again while the target is the one of
\* the block before, as long as the program runs and the age is inner; then
\* it returns whatever the last answer was.
TargetAnswered ==
  /\ cpc = "get"
  /\ \E max \in MaxShares :
       LET t == [blck |-> poolBlck, max |-> max]
       IN IF running /\ Inner(now) /\ t.blck = prevBlck
            THEN cpc' = "get" /\ UNCHANGED <<target, prevBlck, obj>>
            ELSE GotTarget(t)
  /\ tries' = 0
  /\ UNCHANGED <<clockVars, running, solution, cDeadline, solutions,
                 countVars, poolVars, minerVars>>

\* No answer, or one that is not a status: GetPoolTargetRetrying asks again a
\* few times, then Communicate rests until the outer period.
TargetNotAnswered ==
  /\ cpc = "get"
  /\ IF running /\ Inner(now) /\ MayRetry
       THEN cpc' = "get" /\ tries' = tries + 1 /\ UNCHANGED cDeadline
       ELSE /\ cpc' = IF running THEN "await outer" ELSE "join"
            /\ cDeadline' = UntilOuter(now)
            /\ tries' = 0
  /\ UNCHANGED <<clockVars, running, obj, prevBlck, target, solution,
                 solutions, countVars, poolVars, minerVars>>

AwaitedOuter ==
  /\ cpc = "await outer"
  /\ OuterOrOver(cDeadline)
  /\ cpc' = "top"
  /\ UNCHANGED <<clockVars, running, localVars, solutions, countVars,
                 poolVars, minerVars>>

\* CMineThread::NewTarget, called on each mine object in turn.
NewTarget ==
  /\ cpc = "hand" /\ obj < ThreadsCount
  /\ blckNo' = [blckNo EXCEPT ![obj] = target.blck + 1]
  /\ obj' = obj + 1
  /\ UNCHANGED <<clockVars, running, cpc, tries, prevBlck, target, solution,
                 cDeadline, solutions, countVars, poolVars, mpc, counter,
                 computed, mDeadline>>

\* m_pool_max_shares is set after the mine threads got the target.
SetMaxShares ==
  /\ cpc = "hand" /\ obj = ThreadsCount
  /\ poolMax' = target.max
  /\ cpc' = "loop"
  /\ UNCHANGED <<clockVars, running, localVars, solutions, countVars,
                 lastHashes, minerVars>>

\* The head of the submitting loop, and GetSolution.
GetSolution ==
  /\ cpc = "loop" /\ running /\ Inner(now)
  /\ IF solutions = << >>
       THEN cpc' = "check" /\ UNCHANGED <<solution, solutions>>
       ELSE /\ cpc' = "submit"
            /\ solution' = solutions[Len(solutions)]
            /\ solutions' = Popped
  /\ UNCHANGED <<clockVars, running, obj, tries, prevBlck, target, cDeadline,
                 countVars, poolVars, minerVars>>

\* The submitting loop ends: CloseMiningBlock begins.
LeaveLoop ==
  /\ cpc = "loop" /\ ~(running /\ Inner(now))
  /\ cpc' = "close" /\ obj' = 0
  /\ lastHashes' = 0
  /\ UNCHANGED <<clockVars, running, tries, prevBlck, target, solution,
                 cDeadline, solutions, countVars, poolMax, minerVars>>

\* SubmitSolution, by the code SubmitPoolSolution returns.  "True": 0.
ShareAccepted ==
  /\ cpc = "submit"
  /\ accepted' = accepted + 1
  /\ reached' = (reached \/ accepted' >= target.max)
  /\ cpc' = "check" /\ solution' = NoSolution
  /\ UNCHANGED <<clockVars, running, obj, tries, prevBlck, target, cDeadline,
                 solutions, banned, poolVars, minerVars>>

\* "False": any code > 0.  9 is SHARES_LIMIT, 11 and 12 are bans.
ShareRejected ==
  /\ cpc = "submit"
  /\ \/ UNCHANGED <<reached, banned>>
     \/ reached' = TRUE /\ UNCHANGED banned
     \/ banned' = TRUE /\ UNCHANGED reached
  /\ cpc' = "check" /\ solution' = NoSolution
  /\ UNCHANGED <<clockVars, running, obj, tries, prevBlck, target, cDeadline,
                 solutions, accepted, poolVars, minerVars>>

\* -1, no answer understood after all the tries: the share goes back.
ShareFailed ==
  /\ cpc = "submit"
  /\ solutions' = Append(solutions, solution)
  /\ cpc' = "check" /\ solution' = NoSolution
  /\ UNCHANGED <<clockVars, running, obj, tries, prevBlck, target, cDeadline,
                 countVars, poolVars, minerVars>>

\* What the submitting loop does after a share, or without one.
CheckShares ==
  /\ cpc = "check"
  /\ \/ /\ banned
        /\ cpc' = "close" /\ obj' = 0 /\ lastHashes' = 0
        /\ UNCHANGED cDeadline
     \/ /\ ~banned /\ ReachedMaxShares
        /\ cpc' = "rest" /\ cDeadline' = UntilOuter(now)
        /\ UNCHANGED <<obj, lastHashes>>
     \/ /\ ~banned /\ ~ReachedMaxShares
        /\ cpc' = "loop"
        /\ UNCHANGED <<obj, cDeadline, lastHashes>>
  /\ UNCHANGED <<clockVars, running, tries, prevBlck, target, solution,
                 solutions, countVars, poolMax, minerVars>>

Rested ==
  /\ cpc = "rest"
  /\ OuterOrOver(cDeadline)
  /\ cpc' = "loop"
  /\ UNCHANGED <<clockVars, running, localVars, solutions, countVars,
                 poolVars, minerVars>>

\* CMineThread::GetBlockSummary, called by CloseMiningBlock on each mine
\* object in turn (m_exited never gets to 2).
GetBlockSummary ==
  /\ cpc = "close" /\ obj < ThreadsCount
  /\ SummaryReady(obj)
  /\ lastHashes' = lastHashes + computed[obj]
  /\ computed' = [computed EXCEPT ![obj] = SummaryLeft(obj)]
  /\ obj' = obj + 1
  /\ UNCHANGED <<clockVars, running, cpc, tries, prevBlck, target, solution,
                 cDeadline, solutions, countVars, poolMax, mpc, blckNo,
                 counter, mDeadline>>

\* The end of CloseMiningBlock, and ResetMiningBlock.
ResetMiningBlock ==
  /\ cpc = "close" /\ obj = ThreadsCount
  /\ accepted' = 0 /\ reached' = FALSE
  /\ solutions' = SolutionsLeft
  /\ cpc' = IF banned THEN "join" ELSE "top"
  /\ UNCHANGED <<clockVars, running, localVars, banned, poolVars, minerVars>>

\* CleanupSyncState of all, and join.
JoinMineThreads ==
  /\ cpc = "join"
  /\ \A m \in Miners : mpc[m] = "exited"
  /\ cpc' = "ended"
  /\ UNCHANGED <<clockVars, running, localVars, solutions, countVars,
                 poolVars, minerVars>>

Communicate ==
  \/ Top \/ AwaitedInner
  \/ TargetAnswered \/ TargetNotAnswered \/ AwaitedOuter
  \/ NewTarget \/ SetMaxShares
  \/ GetSolution \/ LeaveLoop
  \/ ShareAccepted \/ ShareRejected \/ ShareFailed
  \/ CheckShares \/ Rested
  \/ GetBlockSummary \/ ResetMiningBlock
  \/ JoinMineThreads

-----------------------------------------------------------------------------
(* The mine thread m.                                                      *)

commVars == <<clockVars, running, cpc, localVars, countVars, poolVars>>

\* WaitTarget returns.
WaitTarget(m) ==
  /\ mpc[m] = "wait"
  /\ TargetReady(m)
  /\ IF running
       THEN /\ mpc' = [mpc EXCEPT ![m] = "mine"]
            /\ counter' = [counter EXCEPT ![m] = 0]
       ELSE /\ mpc' = [mpc EXCEPT ![m] = "exited"]
            /\ UNCHANGED counter
  /\ UNCHANGED <<commVars, solutions, blckNo, computed, mDeadline>>

\* The head of the mining loop, and what it decides before a hash.
MineLoop(m) ==
  /\ mpc[m] = "mine"
  /\ \/ /\ ~(running /\ Inner(now)) \/ banned
        /\ mpc' = [mpc EXCEPT ![m] = "summary"]
        /\ UNCHANGED mDeadline
     \/ /\ running /\ Inner(now) /\ ~banned /\ ReachedMaxShares
        /\ mpc' = [mpc EXCEPT ![m] = "rest"]
        /\ mDeadline' = [mDeadline EXCEPT ![m] = UntilOuter(now)]
     \/ /\ running /\ Inner(now) /\ ~banned /\ ~ReachedMaxShares
        /\ counter[m] < MaxHashes
        /\ mpc' = [mpc EXCEPT ![m] = "hash"]
        /\ UNCHANGED mDeadline
  /\ UNCHANGED <<commVars, solutions, blckNo, counter, computed>>

\* GetBase, GetHash, and AddSolution if the hash matches.
Hash(m) ==
  /\ mpc[m] = "hash"
  /\ mpc' = [mpc EXCEPT ![m] = "mine"]
  /\ counter' = [counter EXCEPT ![m] = counter[m] + 1]
  /\ \/ UNCHANGED solutions
     \/ solutions' = Append(solutions, [blck |-> blckNo[m], thread |-> m,
                                        nonce |-> counter[m]])
  /\ UNCHANGED <<commVars, blckNo, computed, mDeadline>>

MineRested(m) ==
  /\ mpc[m] = "rest"
  /\ OuterOrOver(mDeadline[m])
  /\ mpc' = [mpc EXCEPT ![m] = "mine"]
  /\ UNCHANGED <<commVars, solutions, blckNo, counter, computed, mDeadline>>

SetBlockSummary(m) ==
  /\ mpc[m] = "summary"
  /\ computed' = [computed EXCEPT ![m] = counter[m]]
  /\ mpc' = [mpc EXCEPT ![m] = "done"]
  /\ UNCHANGED <<commVars, solutions, blckNo, counter, mDeadline>>

\* DoneTarget, then the end of the loop of Mine.
DoneTarget(m) ==
  /\ mpc[m] = "done"
  /\ blckNo' = [blckNo EXCEPT ![m] = 0]
  /\ mpc' = [mpc EXCEPT ![m] = IF banned \/ ~running THEN "exited" ELSE "wait"]
  /\ UNCHANGED <<commVars, solutions, counter, computed, mDeadline>>

Mine(m) ==
  \/ WaitTarget(m) \/ MineLoop(m) \/ Hash(m) \/ MineRested(m)
  \/ SetBlockSummary(m) \/ DoneTarget(m)

-----------------------------------------------------------------------------
(* The rest of the world.                                                  *)

\* Ctrl+C or the exit command: g_still_running is cleared, everyone notified.
Stop ==
  /\ running
  /\ running' = FALSE
  /\ UNCHANGED <<clockVars, cpc, localVars, solutions, countVars, poolVars,
                 minerVars>>

\* A thread with something to do that needs no answer of the pool.
CommBusy ==
  \/ cpc \in {"top", "hand", "loop", "check"}
  \/ cpc \in {"rest", "await outer"} /\ OuterOrOver(cDeadline)
  \/ cpc = "close" /\ (obj = ThreadsCount \/ SummaryReady(obj))
MineBusy(m) ==
  \/ mpc[m] \in {"mine", "hash", "summary", "done"}
  \/ mpc[m] = "rest" /\ OuterOrOver(mDeadline[m])
  \/ mpc[m] = "wait" /\ TargetReady(m)

\* A second goes by.  With Prompt, a thread that only computes is never late
\* by the 24 seconds between two inner periods; a call to the pool, with its
\* timeouts of 60 seconds, may be.
Tick ==
  /\ now < MaxTime
  /\ Prompt /\ Outer(now) /\ Inner(now + 1)
       => ~CommBusy /\ \A m \in Miners : ~MineBusy(m)
  /\ now' = now + 1
  /\ UNCHANGED <<poolBlck, running, cpc, localVars, solutions, countVars,
                 poolVars, minerVars>>

\* The pool learns of the block that ended, at once, late or not at all.
PoolNewBlock ==
  /\ poolBlck < now \div Period
  /\ poolBlck' = poolBlck + 1
  /\ UNCHANGED <<now, running, cpc, localVars, solutions, countVars, poolVars,
                 minerVars>>

\* Everything has ended.
Ended == cpc = "ended" /\ UNCHANGED vars

Next ==
  \/ Communicate
  \/ \E m \in Miners : Mine(m)
  \/ Stop \/ Tick \/ PoolNewBlock
  \/ Ended

Spec == Init /\ [][Next]_vars

\* The operating system runs every thread and the clock goes on; a call to
\* the pool ends, with an answer or without.
Fairness ==
  /\ WF_vars(Communicate)
  /\ \A m \in Miners : WF_vars(Mine(m))
  /\ WF_vars(Tick)

FairSpec == Spec /\ Fairness

-----------------------------------------------------------------------------
(* Properties.                                                             *)

ClockTypeOK == now \in Nat /\ poolBlck \in Nat /\ running \in BOOLEAN

LocalTypeOK ==
  /\ cpc \in CommPcs /\ obj \in 0 .. ThreadsCount /\ tries \in 0 .. Retries
  /\ prevBlck \in Nat \cup {NoBlck} /\ target \in Targets \cup {NoTarget}
  /\ solution \in Solutions /\ cDeadline \in Int

PoolTypeOK ==
  /\ solutions \in Seq(Solutions)
  /\ accepted \in Nat /\ reached \in BOOLEAN /\ banned \in BOOLEAN
  /\ poolMax \in Nat /\ lastHashes \in Nat

MinerTypeOK ==
  /\ mpc \in [Miners -> MinePcs]
  /\ blckNo \in [Miners -> Nat]
  /\ counter \in [Miners -> Nat]
  /\ computed \in [Miners -> Nat]
  /\ mDeadline \in [Miners -> Int]

TypeOK == ClockTypeOK /\ LocalTypeOK /\ PoolTypeOK /\ MinerTypeOK

\* Thread m holds a target and reads its fields without a lock.
Mining(m) == mpc[m] \in {"mine", "hash", "rest", "summary"}

\* NewTarget (comm.cpp:673) rewrites the fields of a mine object only while
\* the thread of that object is not mining: the summaries CloseMiningBlock
\* waits for are the only thing that makes the two exclude each other.
NewTargetProtected ==
  cpc = "hand" => \A m \in Miners : m >= obj => ~Mining(m)

\* While a target is mined, every share that waits, and the one under way, is
\* for the block of that target: ResetMiningBlock drops the shares of the
\* block before after the last thread that could add one.
SharesOfTarget ==
  cpc \in {"hand", "loop", "submit", "check", "rest"} =>
    /\ \A i \in 1 .. Len(solutions) : solutions[i].blck = target.blck + 1
    /\ cpc = "submit" => solution.blck = target.blck + 1

\* No share is queued twice, nor queued while it is being submitted, whatever
\* fails and is put back.
NoShareTwice ==
  /\ \A i, j \in 1 .. Len(solutions) :
       solutions[i] = solutions[j] => i = j
  /\ cpc = "submit" => \A i \in 1 .. Len(solutions) : solutions[i] # solution

\* No more shares of a block are counted as accepted than --shares allows, nor
\* more than the pool announced (one is sent to a pool that announces 0),
\* though shares keep arriving while one is being submitted.
ShareLimit ==
  /\ SharesLimit > 0 => accepted <= SharesLimit
  /\ accepted <= IF target.max = 0 THEN 1 ELSE target.max

\* A target handed over is not erased by the DoneTarget of the block before:
\* a mine thread gives its summary first and clears m_blck_no after it.
TargetNotErased ==
  cpc = "hand" => \A m \in Miners : m >= obj => mpc[m] # "done"

\* The hashes reported for a block are those its threads computed, each once.
HashesCounted ==
  cpc = "close" /\ obj = ThreadsCount /\ running =>
    lastHashes = FoldFunction(+, 0, counter)

\* Thread m was given a target and gave it up without one hash.
HashedNothing(m) ==
  mpc[m] \in {"wait", "exited"} /\ blckNo[m] = 0 /\ counter[m] = 0

\* A block that is being mined is closed, and the comm thread gets to the
\* next one, unless some thread computed no hash at all.
BlockCloses ==
  cpc = "loop" ~> \/ cpc \in {"top", "join", "ended"}
                  \/ \E m \in Miners : HashedNothing(m)

\* The same without the exception.
EveryBlockCloses == cpc = "hand" ~> cpc \in {"top", "join", "ended"}

\* After Ctrl+C every thread of the pool ends.
StopEnds == ~running ~> cpc = "ended"

-----------------------------------------------------------------------------
(* The inductive invariant behind NewTargetProtected and SharesOfTarget.   *)
(* It does not depend on Prompt: the hand-over is safe at any speed.       *)

\* The comm thread is between GetTarget and ResetMiningBlock.
InBlock == cpc \in {"hand", "loop", "submit", "check", "rest", "close"}

\* Thread m has finished with the last target it was given, and its summary
\* was collected.
Free(m) ==
  computed[m] = 0 /\ ~Mining(m) /\ (mpc[m] = "wait" => blckNo[m] = 0)

\* A thread mines the target of the comm thread, and has no summary yet.
MinesTarget == \A m \in Miners :
  Mining(m) => blckNo[m] = target.blck + 1 /\ computed[m] = 0

\* A thread that waits was given the target of the comm thread or none; it
\* has none as long as its summary is there.
WaitsForTarget == \A m \in Miners : mpc[m] = "wait" =>
  blckNo[m] \in {0, target.blck + 1} /\ (computed[m] > 0 => blckNo[m] = 0)

\* The comm thread gives targets to free threads only ...
HandsToFree == cpc = "hand" => \A m \in Miners : m >= obj => Free(m)

\* ... frees them one by one when it closes a block ...
ClosesFree ==
  running /\ cpc = "close" => \A m \in Miners : m < obj => Free(m)

\* ... and asks for the next target when all are free, with no share left.
AllFreeBetween ==
  running /\ ~InBlock => solutions = << >> /\ \A m \in Miners : Free(m)

\* Every share is for the target of the comm thread.
SharesBlck ==
  /\ \A i \in 1 .. Len(solutions) : solutions[i].blck = target.blck + 1
  /\ cpc = "submit" => solution.blck = target.blck + 1

HandOverInv ==
  /\ MinesTarget /\ WaitsForTarget
  /\ HandsToFree /\ ClosesFree /\ AllFreeBetween
  /\ SharesBlck

-----------------------------------------------------------------------------
(* The threads of a pool implement the rounds of BlockRounds.              *)

WorkingMiners == {m \in Miners : Mining(m)}

ReportedMiners ==
  {m \in Miners : computed[m] > 0 \/ (cpc = "close" /\ m < obj)}

ShareBlcks ==
  {solutions[i].blck - 1 : i \in 1 .. Len(solutions)}
    \cup (IF cpc = "submit" THEN {solution.blck - 1} ELSE {})

Rounds == INSTANCE BlockRounds WITH
  Threads  <- Miners,
  Blocks   <- Nat \cup {NoBlck},
  block    <- target.blck,
  open     <- InBlock,
  working  <- WorkingMiners,
  reported <- ReportedMiners,
  shares   <- ShareBlcks,
  stopped  <- ~running

\* Rounds are separated: no target of a new round reaches a thread at work on
\* the round before, no share outlives its round, and no round ends before
\* every thread has reported, unless the program is stopping.
RoundsImplemented == Rounds!RoundSpec
=============================================================================
