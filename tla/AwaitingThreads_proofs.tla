----------------------- MODULE AwaitingThreads_proofs -----------------------
(***************************************************************************)
(* The registry of waiting threads is exact, for any number of mine        *)
(* threads and wherever the exit handler runs.                             *)
(*                                                                         *)
(* Only Insert and Erase change the registry.  What has to be shown is     *)
(* that nothing else changes what a registered thread waits on: its pc,    *)
(* or, for the comm thread in GetBlockSummary, the mine object it is at.   *)
(***************************************************************************)
EXTENDS AwaitingThreads, TLAPS

\* Where a thread is in the code while it waits, and where it is in the wait
\* while it is registered.
Waiting    == {"target", "inner", "rest", "close"}
Registered == {"test", "block", "asleep", "release", "erase"}

Places == Waiting \cup {"top", "hand", "loop", "closing", "cleanup", "join", "ended",
                        "mine", "summary", "done", "exited"}
Steps  == Registered \cup {"no", "handle", "insert"}

PcTyped == pc \in [Threads -> Places] /\ wait \in [Threads -> Steps]

\* A thread is in a wait only where the code waits, and only the comm thread
\* waits for a summary or for the inner period, and goes on with another object.
WaitsWhereItIs ==
  /\ \A t \in Threads : wait[t] # "no" => pc[t] \in Waiting
  /\ \A m \in Miners : pc[m] \notin {"inner", "close"}

Registry ==
  awaits = [t \in Threads |-> IF wait[t] \in Registered THEN Condvar(t) ELSE None]

RegistryInv == PcTyped /\ WaitsWhereItIs /\ Registry

-----------------------------------------------------------------------------
LEMMA InitRegistry == Init => RegistryInv
BY DEF Init, RegistryInv, PcTyped, Places, Steps, WaitsWhereItIs, Registry, Registered, Miners, Threads

LEMMA RegistryInvImplies == RegistryInv => RegistryExact
BY DEF RegistryInv, Registry, Registered, RegistryExact

\* A step that leaves the registry alone keeps the invariant if the same threads
\* are registered, and what they wait on is the same.
LEMMA KeepsRegistry ==
  ASSUME RegistryInv, PcTyped', WaitsWhereItIs', UNCHANGED awaits,
         \A t \in Threads : wait'[t] \in Registered <=> wait[t] \in Registered,
         \A t \in Threads : wait[t] \in Registered => pc'[t] = pc[t],
         pc[Comm] # "close" \/ wait[Comm] \notin Registered \/ UNCHANGED obj
  PROVE  RegistryInv'
<1>1. ASSUME NEW t \in Threads, wait[t] \in Registered
      PROVE  Condvar(t)' = Condvar(t)
  <2>1. pc'[t] = pc[t]
    BY <1>1
  <2>2. CASE t = Comm
    BY <2>1, <2>2, <1>1 DEF Condvar, BlckNo, Summary, Own
  <2>3. CASE t \in Miners
    BY <2>1, <2>3 DEF Condvar, BlckNo, Summary, Own, RegistryInv, WaitsWhereItIs
  <2> QED  BY <2>2, <2>3 DEF Threads
<1>2. Registry'
  BY <1>1 DEF RegistryInv, Registry
<1> QED  BY <1>2 DEF RegistryInv

\* A notification changes nothing of it: who sleeps is registered, and still is
\* when it tests again.
LEMMA NotifiedRegistered ==
  ASSUME PcTyped, NEW cvs, wait' = Notified(cvs)
  PROVE  /\ wait' \in [Threads -> Steps]
         /\ \A t \in Threads : wait'[t] \in Registered <=> wait[t] \in Registered
         /\ \A t \in Threads : wait'[t] # "no" => wait[t] # "no"
<1>1. \A t \in Threads :
        wait'[t] = IF wait[t] = "asleep" /\ Condvar(t) \in cvs THEN "test" ELSE wait[t]
  BY DEF Notified
<1>2. wait' \in [Threads -> Steps]
  BY DEF Notified, PcTyped, Steps, Registered
<1> QED  BY <1>1, <1>2 DEF Registered

LEMMA NotifiedKeeps ==
  ASSUME RegistryInv, NEW cvs, wait' = Notified(cvs), UNCHANGED <<pc, awaits>>,
         pc[Comm] # "close" \/ UNCHANGED obj
  PROVE  RegistryInv'
<1>1. /\ wait' \in [Threads -> Steps]
      /\ \A t \in Threads : wait'[t] \in Registered <=> wait[t] \in Registered
      /\ \A t \in Threads : wait'[t] # "no" => wait[t] # "no"
  BY NotifiedRegistered DEF RegistryInv
<1>2. PcTyped' /\ WaitsWhereItIs'
  BY <1>1 DEF RegistryInv, PcTyped, WaitsWhereItIs
<1> QED  BY <1>1, <1>2, KeepsRegistry

\* A thread that is not registered goes on, out of a wait or to the beginning of
\* one; only the comm thread goes on to another mine object.
LEMMA GoesOn ==
  ASSUME RegistryInv, NEW t \in Threads, wait[t] \notin Registered,
         NEW p \in Places, NEW w \in {"no", "handle"},
         w = "handle" => p \in Waiting,
         t \in Miners => p \notin {"inner", "close"},
         pc' = [pc EXCEPT ![t] = p], wait' = [wait EXCEPT ![t] = w],
         UNCHANGED awaits, t = Comm \/ UNCHANGED obj
  PROVE  RegistryInv'
<1>1. PcTyped'
  BY DEF RegistryInv, PcTyped, Steps, Registered
<1>2. WaitsWhereItIs'
  BY DEF RegistryInv, PcTyped, WaitsWhereItIs, Threads
<1>3. \A u \in Threads : wait'[u] \in Registered <=> wait[u] \in Registered
  BY DEF RegistryInv, PcTyped, Registered
<1>4. \A u \in Threads : wait[u] \in Registered => pc'[u] = pc[u]
  BY DEF RegistryInv, PcTyped
<1> QED  BY <1>1, <1>2, <1>3, <1>4, KeepsRegistry

\* Outside of the places where it waits a thread is in no wait.
LEMMA NotWaiting ==
  ASSUME RegistryInv, NEW t \in Threads, pc[t] \notin Waiting \/ wait[t] = "no"
  PROVE  /\ wait[t] = "no" /\ wait[t] \notin Registered
         /\ UNCHANGED wait => wait' = [wait EXCEPT ![t] = "no"]
BY DEF RegistryInv, PcTyped, WaitsWhereItIs, Registered

-----------------------------------------------------------------------------
\* The steps of a wait.
LEMMA AwaitKeeps ==
  ASSUME RegistryInv, NEW t \in Threads, Await(t)
  PROVE  RegistryInv'
<1> USE DEF PcTyped, Places, Steps, Waiting, Registered
<1>1. CASE Handle(t)
  BY <1>1, KeepsRegistry DEF Handle, waitVars, RegistryInv, WaitsWhereItIs, Registered
<1>2. CASE Insert(t)
  <2>1. PcTyped' /\ WaitsWhereItIs'
    BY <1>2 DEF Insert, waitVars, RegistryInv, WaitsWhereItIs
  <2>2. \A u \in Threads : Condvar(u)' = Condvar(u)
    BY <1>2 DEF Insert, waitVars, Condvar, BlckNo, Summary, Own
  <2>3. Registry'
    BY <1>2, <2>2 DEF Insert, RegistryInv, Registry, Registered
  <2> QED  BY <2>1, <2>3 DEF RegistryInv
<1>3. CASE Test(t) \/ Block(t) \/ TimeOut(t) \/ Release(t)
  BY <1>3, KeepsRegistry
  DEF Test, Block, TimeOut, Release, waitVars, RegistryInv, WaitsWhereItIs, Registered
<1>4. CASE Erase(t)
  <2>1. PICK p \in Places \ {"inner", "close"} : pc' = [pc EXCEPT ![t] = p]
    BY <1>4 DEF Erase, Returned
  <2>2. /\ wait' = [wait EXCEPT ![t] = "no"]
        /\ awaits' = [awaits EXCEPT ![t] = None]
        /\ pc[t] \in {"inner", "close"} \/ UNCHANGED obj
    BY <1>4 DEF Erase, Erased, Returned
  <2>3. PcTyped' /\ WaitsWhereItIs'
    BY <2>1, <2>2 DEF RegistryInv, WaitsWhereItIs, Threads
  <2>4. ASSUME NEW u \in Threads, u # t, wait[u] \in Registered
        PROVE  Condvar(u)' = Condvar(u)
    <3>1. pc'[u] = pc[u]
      BY <2>1, <2>4 DEF RegistryInv
    <3>2. pc[u] # "close" \/ UNCHANGED obj
      BY <2>2, <2>4 DEF RegistryInv, WaitsWhereItIs, Threads
    <3> QED  BY <3>1, <3>2 DEF Condvar, BlckNo, Summary, Own
  <2>5. Registry'
    BY <2>2, <2>4 DEF RegistryInv, Registry
  <2> QED  BY <2>3, <2>5 DEF RegistryInv
<1>5. CASE NoWait(t)
  <2>1. PICK p \in Places \ {"inner", "close"} : pc' = [pc EXCEPT ![t] = p]
    BY <1>5 DEF NoWait, Returned
  <2> QED
    BY <1>5, <2>1, GoesOn DEF NoWait, Returned
<1> QED  BY <1>1, <1>2, <1>3, <1>4, <1>5 DEF Await

\* The steps of the comm thread between its waits: it is not registered.
LEMMA CommunicateKeeps ==
  ASSUME RegistryInv, Communicate
  PROVE  RegistryInv'
<1> USE DEF PcTyped, Places, Steps, Waiting, Registered
<1>0. Comm \in Threads /\ Comm \notin Miners
  BY DEF Threads, Miners, Comm
<1>1. CASE Top \/ Handed \/ Submit \/ GetBlockSummary \/ Join
  <2>1. pc[Comm] \notin Waiting \/ wait[Comm] = "no"
    BY <1>1 DEF Top, Handed, Submit, GetBlockSummary, Join
  <2>2. /\ wait[Comm] = "no" /\ wait[Comm] \notin Registered
        /\ UNCHANGED wait => wait' = [wait EXCEPT ![Comm] = "no"]
    BY <1>0, <2>1, NotWaiting
  <2>3. \E p \in Places, w \in {"no", "handle"} :
          /\ pc' = [pc EXCEPT ![Comm] = p] /\ wait' = [wait EXCEPT ![Comm] = w]
          /\ w = "handle" => p \in Waiting
    BY <1>1, <2>2 DEF Top, Handed, Submit, GetBlockSummary, Join, Begin
  <2>4. UNCHANGED awaits
    BY <1>1 DEF Top, Handed, Submit, GetBlockSummary, Join, envVars
  <2> QED  BY <1>0, <2>2, <2>3, <2>4, GoesOn
<1>2. CASE NewTarget \/ (Cleanup /\ obj < ThreadsCount)
  <2>1. PICK cvs : wait' = Notified(cvs)
    BY <1>2 DEF NewTarget, Cleanup
  <2>2. pc[Comm] # "close" /\ UNCHANGED <<pc, awaits>>
    BY <1>2 DEF NewTarget, Cleanup, envVars
  <2> QED  BY <2>1, <2>2, NotifiedKeeps
<1>3. CASE Cleanup /\ ~(obj < ThreadsCount)
  <2>1. /\ wait[Comm] \notin Registered
        /\ UNCHANGED wait => wait' = [wait EXCEPT ![Comm] = "no"]
    BY <1>0, <1>3, NotWaiting DEF Cleanup
  <2> QED  BY <1>0, <1>3, <2>1, GoesOn DEF Cleanup, envVars
<1> QED  BY <1>0, <1>1, <1>2, <1>3, AwaitKeeps DEF Communicate

\* The steps of a mine thread between its waits: it is not registered.
LEMMA MineKeeps ==
  ASSUME RegistryInv, NEW m \in Miners, Mine(m)
  PROVE  RegistryInv'
<1> USE DEF PcTyped, Places, Steps, Waiting, Registered
<1>0. m \in Threads
  BY DEF Threads
<1>1. CASE MineTop(m) \/ MineLoop(m)
  <2>1. pc[m] \notin Waiting
    BY <1>1 DEF MineTop, MineLoop
  <2>2. /\ wait[m] = "no" /\ wait[m] \notin Registered
        /\ UNCHANGED wait => wait' = [wait EXCEPT ![m] = "no"]
    BY <1>0, <2>1, NotWaiting
  <2>3. \E p \in Places \ {"inner", "close"}, w \in {"no", "handle"} :
          /\ pc' = [pc EXCEPT ![m] = p] /\ wait' = [wait EXCEPT ![m] = w]
          /\ w = "handle" => p \in Waiting
    BY <1>1, <2>2 DEF MineTop, MineLoop, Begin
  <2>4. UNCHANGED <<awaits, obj>>
    BY <1>1 DEF MineTop, MineLoop, envVars
  <2> QED  BY <1>0, <2>2, <2>3, <2>4, GoesOn
<1>2. CASE SetBlockSummary(m) \/ DoneTarget(m)
  <2>1. PICK cvs : wait' = Notified(cvs)
    BY <1>2 DEF SetBlockSummary, DoneTarget
  <2>2. wait[m] = "no"
    BY <1>0, <1>2, NotWaiting DEF SetBlockSummary, DoneTarget
  <2>3. PICK p \in {"done", "top"} : pc' = [pc EXCEPT ![m] = p]
    BY <1>2 DEF SetBlockSummary, DoneTarget
  <2>4. UNCHANGED <<awaits, obj>>
    BY <1>2 DEF SetBlockSummary, DoneTarget, envVars
  <2>5. /\ wait' \in [Threads -> Steps]
        /\ \A t \in Threads : wait'[t] \in Registered <=> wait[t] \in Registered
        /\ \A t \in Threads : wait'[t] # "no" => wait[t] # "no"
    BY <2>1, NotifiedRegistered DEF RegistryInv
  <2>6. PcTyped' /\ WaitsWhereItIs'
    BY <1>0, <2>2, <2>3, <2>5 DEF RegistryInv, WaitsWhereItIs, Threads
  <2>7. \A t \in Threads : wait[t] \in Registered => pc'[t] = pc[t]
    BY <1>0, <2>2, <2>3 DEF RegistryInv
  <2> QED  BY <2>4, <2>5, <2>6, <2>7, KeepsRegistry
<1> QED  BY <1>0, <1>1, <1>2, AwaitKeeps DEF Mine

\* What is left: wakeups, the exit handler and the clock.
LEMMA OthersKeep ==
  ASSUME RegistryInv, (\E t \in Threads : Spurious(t)) \/ Stop \/ Notify \/ Turn
  PROVE  RegistryInv'
<1> USE DEF PcTyped, Places, Steps, Waiting, Registered
<1>1. CASE \E t \in Threads : Spurious(t)
  BY <1>1, KeepsRegistry
  DEF Spurious, waitVars, RegistryInv, WaitsWhereItIs, Registered
<1>2. CASE Stop \/ Turn \/ NotifyLock \/ NotifyEnd
  BY <1>2, KeepsRegistry
  DEF Stop, Turn, NotifyLock, NotifyEnd, handlerVars, RegistryInv, WaitsWhereItIs
<1>3. CASE NotifyOne
  BY <1>3, NotifiedKeeps DEF NotifyOne, handlerVars
<1> QED  BY <1>1, <1>2, <1>3 DEF Notify

-----------------------------------------------------------------------------
\* The registry holds the condition variable each thread waits on, and no
\* other: the assertions of awaiting_threads_handle and _release never fail,
\* and whoever sleeps can be reached by Ctrl+C.
THEOREM RegistryIsExact == Spec => []RegistryExact
<1>1. RegistryInv /\ [Next]_vars => RegistryInv'
  <2> SUFFICES ASSUME RegistryInv, [Next]_vars PROVE RegistryInv'
    OBVIOUS
  <2>1. CASE Communicate
    BY <2>1, CommunicateKeeps
  <2>2. ASSUME NEW m \in Miners, Mine(m) PROVE RegistryInv'
    BY <2>2, MineKeeps
  <2>3. CASE (\E t \in Threads : Spurious(t)) \/ Stop \/ Notify \/ Turn
    BY <2>3, OthersKeep
  <2>4. CASE UNCHANGED vars
    BY <2>4
    DEF vars, RegistryInv, PcTyped, WaitsWhereItIs, Registry, Condvar, BlckNo, Summary, Own
  <2> QED  BY <2>1, <2>2, <2>3, <2>4 DEF Next
<1> QED  BY <1>1, InitRegistry, RegistryInvImplies, PTL DEF Spec
=============================================================================
