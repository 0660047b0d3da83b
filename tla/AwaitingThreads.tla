-------------------------- MODULE AwaitingThreads ---------------------------
(***************************************************************************)
(* How the threads of a pool wait for each other, and how they are told to *)
(* stop (misc.cpp, the waits of mining.cpp and comm.cpp, the exit handler  *)
(* of noso-2m.cpp).                                                        *)
(*                                                                         *)
(* BlockMining takes a wait for a guard; here it is what it is in the      *)
(* code.  A thread takes the mutex of what it waits for, registers the     *)
(* condition variable in g_all_awaiting_threads, tests its predicate,      *)
(* sleeps if it must, and removes itself from the registry.  Ctrl+C clears *)
(* g_still_running and notifies what is registered, with the mutex of the  *)
(* registry and without the mutexes the predicates are tested under.       *)
(*                                                                         *)
(* Of the work done between two waits only what decides the next wait is   *)
(* kept: the clock says whether the age of the block is inner, a target is *)
(* always obtained, and a thread that mines while the program runs reports *)
(* hashes (BlockMining has what happens when it reports none).             *)
(***************************************************************************)
EXTENDS Integers

CONSTANTS
  ThreadsCount,  \* g_pool_threads_count
  HandlerOn      \* where the exit handler may run: see Stop

Miners  == 0 .. ThreadsCount - 1
Comm    == -1
Main    == -2   \* a thread that waits for nothing the others hold
Threads == Miners \cup {Comm}

ASSUME AwaitingAssumption ==
  /\ ThreadsCount \in Nat \ {0}
  /\ HandlerOn \subseteq Threads \cup {Main}

VARIABLES
  running,   \* g_still_running
  inner,     \* NOSO_BLOCK_AGE_INNER_MINING_PERIOD
  pc,        \* where a thread is
  wait,      \* where it is in the wait it has begun; "no" outside of one
  obj,       \* the mine object the comm thread is at
  given,     \* m_blck_no > 0
  summary,   \* m_computed_hashes_count > 0
  awaits,    \* awaiting_threads.awaits: the condition variable of a thread
  owner,     \* who holds awaiting_threads.mutex
  hpc,       \* where the exit handler is
  hon,       \* the thread it runs on
  left       \* the threads awaiting_threads_notify has not come to

vars == <<running, inner, pc, wait, obj, given, summary, awaits, owner, hpc,
          hon, left>>

\* The condition variables: two of each mine object, m_condv_blck_no and
\* m_condv_summary, and one made by a thread for a timed wait.
BlckNo(m)  == <<"blck_no", m>>
Summary(m) == <<"summary", m>>
Own(t)     == <<"own", t>>
None       == <<"none", Main>>

Handler == -3
Nobody  == -4

\* The mutex of a wait is held from its beginning to its end, but in sleep.
Holds(t) == wait[t] \in {"handle", "insert", "test", "block", "release",
                         "erase"}

\* What thread t waits on, for what, and whether it gives up in time.
Condvar(t) ==
  IF pc[t] = "target" THEN BlckNo(t)
  ELSE IF pc[t] = "close" THEN Summary(obj) ELSE Own(t)
BugAwake(t) ==
  \/ pc[t] = "target" /\ given[t]
  \/ pc[t] = "close" /\ summary[obj]
  \/ pc[t] = "inner" /\ inner
  \/ pc[t] = "rest" /\ ~inner
Awake(t) ==
  \/ ~running
  \/ pc[t] = "target" /\ given[t]
  \/ pc[t] = "close" /\ summary[obj]
  \/ pc[t] = "inner" /\ inner
  \/ pc[t] = "rest" /\ ~inner
Timed(t) == pc[t] \in {"inner", "rest"}

BugBlckNoFree(m) == TRUE
\* m_mutex_blck_no of object m is free.
BlckNoFree(m) == ~(pc[m] = "target" /\ Holds(m))

BugSummaryFree(m) == TRUE
\* m_mutex_summary of object m is free.
SummaryFree(m) == ~(pc[Comm] = "close" /\ obj = m /\ Holds(Comm))

BugErased(t) == awaits
\* The registry after the erase of awaiting_threads_release.
Erased(t) == [awaits EXCEPT ![t] = None]

\* The threads that sleep on one of the condition variables wake up, and test
\* again.
Notified(cvs) ==
  [t \in Threads |->
     IF wait[t] = "asleep" /\ Condvar(t) \in cvs THEN "test" ELSE wait[t]]

-----------------------------------------------------------------------------
Init ==
  /\ running = TRUE /\ inner \in BOOLEAN
  /\ pc = [t \in Threads |-> "top"]
  /\ wait = [t \in Threads |-> "no"]
  /\ obj = 0
  /\ given = [m \in Miners |-> FALSE]
  /\ summary = [m \in Miners |-> FALSE]
  /\ awaits = [t \in Threads |-> None]
  /\ owner = Nobody
  /\ hpc = "idle" /\ hon = Main /\ left = {}

-----------------------------------------------------------------------------
(* A wait, from the call to the return.                                    *)

waitVars == <<running, inner, pc, obj, given, summary, hpc, hon, left>>

\* Thread t begins to wait at pc p.
Begin(t, p) ==
  /\ pc' = [pc EXCEPT ![t] = p]
  /\ wait' = [wait EXCEPT ![t] = "handle"]

\* awaiting_threads_handle takes the mutex of the registry ...
Handle(t) ==
  /\ wait[t] = "handle" /\ owner = Nobody
  /\ owner' = t
  /\ wait' = [wait EXCEPT ![t] = "insert"]
  /\ UNCHANGED <<waitVars, awaits>>

\* ... and leaves it with the condition variable in.
Insert(t) ==
  /\ wait[t] = "insert"
  /\ awaits' = [awaits EXCEPT ![t] = Condvar(t)]
  /\ owner' = Nobody
  /\ wait' = [wait EXCEPT ![t] = "test"]
  /\ UNCHANGED waitVars

\* The predicate of wait and wait_for ...
Test(t) ==
  /\ wait[t] = "test"
  /\ wait' = [wait EXCEPT ![t] = IF Awake(t) THEN "release" ELSE "block"]
  /\ UNCHANGED <<waitVars, awaits, owner>>

\* ... and what they do when it does not hold.
Block(t) ==
  /\ wait[t] = "block"
  /\ wait' = [wait EXCEPT ![t] = "asleep"]
  /\ UNCHANGED <<waitVars, awaits, owner>>

\* A timed wait is over a second after the period it waits for begins.
TimeOut(t) ==
  /\ wait[t] = "asleep" /\ Timed(t) /\ Awake(t)
  /\ wait' = [wait EXCEPT ![t] = "release"]
  /\ UNCHANGED <<waitVars, awaits, owner>>

\* A condition variable may wake a thread for nothing.
Spurious(t) ==
  /\ wait[t] = "asleep"
  /\ wait' = [wait EXCEPT ![t] = "test"]
  /\ UNCHANGED <<waitVars, awaits, owner>>

\* awaiting_threads_release, and what the thread goes on with.
Release(t) ==
  /\ wait[t] = "release" /\ owner = Nobody
  /\ owner' = t
  /\ wait' = [wait EXCEPT ![t] = "erase"]
  /\ UNCHANGED <<waitVars, awaits>>

Returned(t) ==
  \/ /\ pc[t] = "target"
     /\ pc' = [pc EXCEPT ![t] = IF running THEN "mine" ELSE "exited"]
     /\ UNCHANGED <<obj, summary>>
  \/ /\ pc[t] = "inner"
     /\ pc' = [pc EXCEPT ![t] = IF running THEN "hand" ELSE "cleanup"]
     /\ obj' = 0 /\ UNCHANGED summary
  \/ /\ pc[t] = "rest"
     /\ pc' = [pc EXCEPT ![t] = IF t = Comm THEN "loop" ELSE "mine"]
     /\ UNCHANGED <<obj, summary>>
  \/ /\ pc[t] = "close"
     /\ summary' = [summary EXCEPT ![obj] = FALSE]
     /\ obj' = obj + 1
     /\ pc' = [pc EXCEPT ![t] = "closing"]

Erase(t) ==
  /\ wait[t] = "erase"
  /\ awaits' = Erased(t)
  /\ owner' = Nobody
  /\ wait' = [wait EXCEPT ![t] = "no"]
  /\ Returned(t)
  /\ UNCHANGED <<running, inner, given, hpc, hon, left>>

\* A timed wait computed when its period has begun: "seconds < 0".
NoWait(t) ==
  /\ wait[t] = "handle" /\ pc[t] = "rest" /\ ~inner
  /\ wait' = [wait EXCEPT ![t] = "no"]
  /\ Returned(t)
  /\ UNCHANGED <<running, inner, given, awaits, owner, hpc, hon, left>>

Await(t) ==
  \/ Handle(t) \/ Insert(t) \/ Test(t) \/ Block(t) \/ TimeOut(t)
  \/ Release(t) \/ Erase(t) \/ NoWait(t)

-----------------------------------------------------------------------------
(* The comm thread, between its waits.                                     *)

envVars == <<running, inner, awaits, owner, hpc, hon, left>>

\* while ( g_still_running ) { if ( OUTER ) ...
Top ==
  /\ pc[Comm] = "top"
  /\ \/ ~running /\ pc' = [pc EXCEPT ![Comm] = "cleanup"] /\ UNCHANGED wait
     \/ running /\ inner /\ pc' = [pc EXCEPT ![Comm] = "hand"] /\ UNCHANGED wait
     \/ running /\ ~inner /\ Begin(Comm, "inner")
  /\ obj' = 0
  /\ UNCHANGED <<envVars, given, summary>>

\* NewTarget on one mine object after the other: under m_mutex_blck_no.
NewTarget ==
  /\ pc[Comm] = "hand" /\ obj < ThreadsCount
  /\ BlckNoFree(obj)
  /\ given' = [given EXCEPT ![obj] = TRUE]
  /\ wait' = Notified({BlckNo(obj)})
  /\ obj' = obj + 1
  /\ UNCHANGED <<envVars, pc, summary>>

Handed ==
  /\ pc[Comm] = "hand" /\ obj = ThreadsCount
  /\ pc' = [pc EXCEPT ![Comm] = "loop"]
  /\ UNCHANGED <<envVars, wait, obj, given, summary>>

\* The submitting loop rests, when the shares are enough, or ends.
Submit ==
  /\ pc[Comm] = "loop" /\ wait[Comm] = "no"
  /\ \/ running /\ inner /\ Begin(Comm, "rest") /\ UNCHANGED obj
     \/ /\ ~(running /\ inner)
        /\ pc' = [pc EXCEPT ![Comm] = "closing"] /\ obj' = 0
        /\ UNCHANGED wait
  /\ UNCHANGED <<envVars, given, summary>>

\* GetBlockSummary of one mine object after the other.
GetBlockSummary ==
  /\ pc[Comm] = "closing"
  /\ IF obj < ThreadsCount
       THEN Begin(Comm, "close")
       ELSE pc' = [pc EXCEPT ![Comm] = "top"] /\ UNCHANGED wait
  /\ UNCHANGED <<envVars, obj, given, summary>>

\* CleanupSyncState of one mine object after the other, under no mutex.
Cleanup ==
  /\ pc[Comm] = "cleanup"
  /\ IF obj < ThreadsCount
       THEN /\ wait' = Notified({BlckNo(obj), Summary(obj)})
            /\ obj' = obj + 1
            /\ UNCHANGED pc
       ELSE /\ pc' = [pc EXCEPT ![Comm] = "join"]
            /\ UNCHANGED <<wait, obj>>
  /\ UNCHANGED <<envVars, given, summary>>

Join ==
  /\ pc[Comm] = "join"
  /\ \A m \in Miners : pc[m] = "exited"
  /\ pc' = [pc EXCEPT ![Comm] = "ended"]
  /\ UNCHANGED <<envVars, wait, obj, given, summary>>

Communicate ==
  \/ Top \/ NewTarget \/ Handed \/ Submit \/ GetBlockSummary
  \/ Cleanup \/ Join \/ Await(Comm)

-----------------------------------------------------------------------------
(* The mine thread m, between its waits.                                   *)

\* while ( g_still_running ) { WaitTarget ...
MineTop(m) ==
  /\ pc[m] = "top"
  /\ IF running
       THEN Begin(m, "target")
       ELSE pc' = [pc EXCEPT ![m] = "exited"] /\ UNCHANGED wait
  /\ UNCHANGED <<envVars, obj, given, summary>>

\* The mining loop rests, when the shares are enough, or ends.
MineLoop(m) ==
  /\ pc[m] = "mine"
  /\ \/ running /\ inner /\ Begin(m, "rest")
     \/ /\ ~(running /\ inner)
        /\ pc' = [pc EXCEPT ![m] = "summary"] /\ UNCHANGED wait
  /\ UNCHANGED <<envVars, obj, given, summary>>

\* Under m_mutex_summary.
SetBlockSummary(m) ==
  /\ pc[m] = "summary"
  /\ SummaryFree(m)
  /\ \/ summary' = [summary EXCEPT ![m] = TRUE]
     \/ ~running /\ summary' = [summary EXCEPT ![m] = FALSE]
  /\ wait' = Notified({Summary(m)})
  /\ pc' = [pc EXCEPT ![m] = "done"]
  /\ UNCHANGED <<envVars, obj, given>>

\* Under m_mutex_blck_no; CleanupSyncState is called from it.
DoneTarget(m) ==
  /\ pc[m] = "done"
  /\ given' = [given EXCEPT ![m] = FALSE]
  /\ wait' = Notified({BlckNo(m), Summary(m)})
  /\ pc' = [pc EXCEPT ![m] = "top"]
  /\ UNCHANGED <<envVars, obj, summary>>

Mine(m) ==
  \/ MineTop(m) \/ MineLoop(m) \/ SetBlockSummary(m) \/ DoneTarget(m)
  \/ Await(m)

-----------------------------------------------------------------------------
(* Ctrl+C, and the clock.                                                  *)

\* The exit handler begins.  It is a signal handler in the builds without the
\* text interface: on a thread of its own (Windows), or on top of a thread that
\* the system interrupts (POSIX, which leaves open which one).  With the text
\* interface it is called by the main thread.
Stop ==
  /\ hpc = "idle"
  /\ hon' \in HandlerOn
  /\ running' = FALSE
  /\ hpc' = "lock"
  /\ UNCHANGED <<inner, pc, wait, obj, given, summary, awaits, owner, left>>

handlerVars == <<running, inner, pc, obj, given, summary, awaits, hon>>

\* awaiting_threads_notify: one condition variable after the other.
NotifyLock ==
  /\ hpc = "lock" /\ owner = Nobody
  /\ owner' = Handler
  /\ hpc' = "notify"
  /\ left' = {t \in Threads : awaits[t] # None}
  /\ UNCHANGED <<handlerVars, wait>>

NotifyOne ==
  /\ hpc = "notify"
  /\ \E t \in left :
       /\ wait' = Notified({awaits[t]})
       /\ left' = left \ {t}
  /\ UNCHANGED <<handlerVars, owner, hpc>>

NotifyEnd ==
  /\ hpc = "notify" /\ left = {}
  /\ owner' = Nobody
  /\ hpc' = "done"
  /\ UNCHANGED <<handlerVars, wait, left>>

Notify == NotifyLock \/ NotifyOne \/ NotifyEnd

\* The inner period begins and ends.  It is long enough (576 seconds) for a wait
\* for it to end, and the outer one (24 seconds) for the loops that see it to
\* end and for the mine threads to get back to WaitTarget.
Turn ==
  /\ inner => pc[Comm] # "inner"
  /\ ~inner => /\ \A m \in Miners : pc[m] \in {"top", "target", "exited"}
               /\ pc[Comm] \notin {"loop", "rest"}
  /\ inner' = ~inner
  /\ UNCHANGED <<running, pc, wait, obj, given, summary, awaits, owner, hpc,
                 hon, left>>

\* The thread the handler runs on is not running itself.
Runs(t) == ~(hon = t /\ hpc \in {"lock", "notify"})

Next ==
  \/ Runs(Comm) /\ Communicate
  \/ \E m \in Miners : Runs(m) /\ Mine(m)
  \/ \E t \in Threads : Spurious(t)
  \/ Stop \/ Notify \/ Turn

Spec == Init /\ [][Next]_vars

\* Every thread is run, a mutex is not refused forever, and the clock goes on;
\* nobody needs to press Ctrl+C, and no condition variable needs to wake a
\* thread for nothing.
Fairness ==
  /\ SF_vars(Runs(Comm) /\ Communicate)
  /\ \A m \in Miners : SF_vars(Runs(m) /\ Mine(m))
  /\ SF_vars(Notify)
  /\ WF_vars(Turn)

FairSpec == Spec /\ Fairness

-----------------------------------------------------------------------------
(* Properties.                                                             *)

\* A thread is registered with the condition variable it waits on, and with
\* no other, from before its first test to after its last: the assertions of
\* awaiting_threads_handle and _release (misc.cpp:244, 258), and what makes a
\* sleeping thread reachable by Ctrl+C.
RegistryExact == \A t \in Threads :
  awaits[t] = IF wait[t] \in {"test", "block", "asleep", "release", "erase"}
                THEN Condvar(t) ELSE None

\* A mine thread hears of the target it was given, though it tests m_blck_no
\* and goes to sleep in two steps.
TargetHeard == \A m \in Miners : given[m] ~> pc[m] = "mine" \/ ~running

\* The comm thread hears of the summaries it waits for.
SummaryHeard == pc[Comm] = "closing" ~> pc[Comm] = "top" \/ ~running

\* Whoever sleeps when Ctrl+C is pressed is woken by it, and its wait ends: the
\* registry reaches every wait, and every predicate tests g_still_running.
SleeperWoken == \A t \in Threads :
  hpc = "lock" /\ wait[t] = "asleep" ~> wait[t] = "no"

\* After Ctrl+C every thread of the pool ends: "Wait for finishing all
\* threads..." (noso-2m.cpp:207).
StopEnds == ~running ~> pc[Comm] = "ended"
=============================================================================
