------------------------- MODULE BlockMining_proofs -------------------------
(***************************************************************************)
(* Theorems about BlockMining, for every number of threads, every clock    *)
(* and every timing of the threads (Prompt or not).                        *)
(***************************************************************************)
EXTENDS BlockMining, SequenceTheorems, TLAPS

\* The age of a block is an integer, so are the instants the timed waits end.
LEMMA ClockTypes ==
  ASSUME NEW t \in Nat
  PROVE  Age(t) \in Int /\ UntilInner(t) \in Int /\ UntilOuter(t) \in Int
<1>1. Age(t) \in Int
  BY ClockAssumption DEF Age
<1> QED
  BY <1>1, ClockAssumption DEF UntilInner, UntilOuter

\* The thread of a mine object, and the bounds of the loops over them.
LEMMA MinersBounds ==
  /\ ThreadsCount \in Nat
  /\ Miners \subseteq Nat
  /\ \A k \in 0 .. ThreadsCount : k < ThreadsCount => k \in Miners
  /\ \A m \in Miners : m < ThreadsCount
BY MiningAssumption DEF Miners

-----------------------------------------------------------------------------
\* Type correctness of the pool: every variable keeps its type.
THEOREM TypeCorrect == Spec => []TypeOK
<1>1. Init => TypeOK
  <2> SUFFICES ASSUME Init PROVE TypeOK
    OBVIOUS
  <2> USE ClockAssumption, MiningAssumption DEF Init
  <2>1. ClockTypeOK
    BY DEF ClockTypeOK
  <2>2. LocalTypeOK
    BY DEF LocalTypeOK, CommPcs, NoTarget, NoSolution, Solutions
  <2>3. PoolTypeOK
    BY EmptySeq DEF PoolTypeOK
  <2>4. MinerTypeOK
    BY DEF MinerTypeOK, MinePcs
  <2> QED
    BY <2>1, <2>2, <2>3, <2>4 DEF TypeOK
<1>2. TypeOK /\ [Next]_vars => TypeOK'
  <2> SUFFICES ASSUME TypeOK, [Next]_vars PROVE TypeOK'
    OBVIOUS
  <2> USE MiningAssumption
  <2>t. /\ ClockTypeOK /\ LocalTypeOK /\ PoolTypeOK /\ MinerTypeOK
        /\ UntilInner(now) \in Int /\ UntilOuter(now) \in Int
    BY ClockTypes DEF TypeOK, ClockTypeOK
  \* A part of the state that a step leaves alone keeps its type.
  <2>a. UNCHANGED <<clockVars, running>> => ClockTypeOK'
    BY <2>t DEF ClockTypeOK, clockVars
  <2>b. UNCHANGED <<cpc, localVars>> => LocalTypeOK'
    BY <2>t DEF LocalTypeOK, localVars
  <2>c. UNCHANGED <<solutions, countVars, poolVars>> => PoolTypeOK'
    BY <2>t DEF PoolTypeOK, countVars, poolVars
  <2>d. UNCHANGED minerVars => MinerTypeOK'
    BY <2>t DEF MinerTypeOK, minerVars
  <2>1. CASE Top
    <3>1. LocalTypeOK'
      <4>1. /\ cpc' \in CommPcs
            /\ cDeadline' \in {UntilInner(now), cDeadline}
            /\ tries' = 0 /\ UNCHANGED <<obj, prevBlck, target, solution>>
        BY <2>1 DEF Top, CommPcs
      <4> QED
        BY <4>1, <2>t DEF LocalTypeOK
    <3> QED
      BY <2>1, <3>1, <2>a, <2>c, <2>d DEF Top, TypeOK
  <2>2. CASE AwaitedInner
    <3>1. LocalTypeOK'
      BY <2>2, <2>t DEF AwaitedInner, LocalTypeOK, CommPcs, localVars
    <3> QED
      BY <2>2, <3>1, <2>a, <2>c, <2>d DEF AwaitedInner, TypeOK
  <2>3. CASE TargetAnswered
    <3>1. PICK max \in MaxShares :
            LET t == [blck |-> poolBlck, max |-> max]
            IN IF running /\ Inner(now) /\ t.blck = prevBlck
                 THEN cpc' = "get" /\ UNCHANGED <<target, prevBlck, obj>>
                 ELSE GotTarget(t)
      BY <2>3 DEF TargetAnswered
    <3>2. [blck |-> poolBlck, max |-> max] \in Targets
      BY <2>t DEF ClockTypeOK, Targets
    <3>3. LocalTypeOK'
      <4>1. CASE cpc' = "get" /\ UNCHANGED <<target, prevBlck, obj>>
        BY <2>3, <4>1, <2>t DEF TargetAnswered, LocalTypeOK, CommPcs
      <4>2. CASE GotTarget([blck |-> poolBlck, max |-> max])
        <5> DEFINE t == [blck |-> poolBlck, max |-> max]
        <5>1. t.blck = poolBlck
          OBVIOUS
        <5>2. /\ cpc' \in CommPcs
              /\ \/ UNCHANGED <<target, prevBlck, obj>>
                 \/ target' = t /\ prevBlck' = t.blck /\ obj' = 0
              /\ tries' = 0 /\ UNCHANGED <<solution, cDeadline>>
          BY <2>3, <4>2 DEF TargetAnswered, GotTarget, CommPcs
        <5> HIDE DEF t
        <5>3. t \in Targets
          BY <3>2 DEF t
        <5>4. obj' \in 0 .. ThreadsCount /\ tries' \in 0 .. Retries
          BY <5>2, <2>t DEF LocalTypeOK
        <5> QED
          BY <5>1, <5>2, <5>3, <5>4, <2>t DEF LocalTypeOK, ClockTypeOK
      <4> QED
        BY <3>1, <4>1, <4>2
    <3> QED
      BY <2>3, <3>3, <2>a, <2>c, <2>d DEF TargetAnswered, TypeOK
  <2>4. CASE TargetNotAnswered
    <3>1. LocalTypeOK'
      <4>1. /\ cpc' \in CommPcs
            /\ cDeadline' \in {UntilOuter(now), cDeadline}
            /\ \/ tries < Retries /\ tries' = tries + 1
               \/ tries' = 0
            /\ UNCHANGED <<obj, prevBlck, target, solution>>
        BY <2>4 DEF TargetNotAnswered, MayRetry, CommPcs
      <4> QED
        BY <4>1, <2>t DEF LocalTypeOK
    <3> QED
      BY <2>4, <3>1, <2>a, <2>c, <2>d DEF TargetNotAnswered, TypeOK
  <2>5. CASE AwaitedOuter
    <3>1. LocalTypeOK'
      BY <2>5, <2>t DEF AwaitedOuter, LocalTypeOK, CommPcs, localVars
    <3> QED
      BY <2>5, <3>1, <2>a, <2>c, <2>d DEF AwaitedOuter, TypeOK
  <2>6. CASE NewTarget
    <3>1. LocalTypeOK'
      BY <2>6, <2>t DEF NewTarget, LocalTypeOK
    <3>2. target.blck + 1 \in Nat
      BY <2>t DEF LocalTypeOK, Targets, NoTarget, NoBlck
    <3>3. MinerTypeOK'
      BY <2>6, <3>2, <2>t DEF NewTarget, MinerTypeOK
    <3> QED
      BY <2>6, <3>1, <3>3, <2>a, <2>c DEF NewTarget, TypeOK
  <2>7. CASE SetMaxShares
    <3>1. LocalTypeOK'
      BY <2>7, <2>t DEF SetMaxShares, LocalTypeOK, CommPcs, localVars
    <3>2. PoolTypeOK'
      BY <2>7, <2>t
      DEF SetMaxShares, PoolTypeOK, LocalTypeOK, Targets, NoTarget, countVars
    <3> QED
      BY <2>7, <3>1, <3>2, <2>a, <2>d DEF SetMaxShares, TypeOK
  <2>8. CASE GetSolution
    <3>1. LocalTypeOK'
      <4>1. /\ cpc' \in CommPcs
            /\ \/ UNCHANGED solution
               \/ solutions # << >> /\ solution' = solutions[Len(solutions)]
            /\ UNCHANGED <<obj, tries, prevBlck, target, cDeadline>>
        BY <2>8 DEF GetSolution, CommPcs
      <4>2. solution' \in Solutions
        BY <4>1, <2>t DEF LocalTypeOK, PoolTypeOK
      <4> QED
        BY <4>1, <4>2, <2>t DEF LocalTypeOK
    <3>2. PoolTypeOK'
      <4>1. solutions' \in Seq(Solutions)
        BY <2>8, <2>t DEF GetSolution, Popped, PoolTypeOK
      <4> QED
        BY <2>8, <4>1, <2>t DEF GetSolution, PoolTypeOK, countVars, poolVars
    <3> QED
      BY <2>8, <3>1, <3>2, <2>a, <2>d DEF GetSolution, TypeOK
  <2>9. CASE LeaveLoop
    <3>1. LocalTypeOK'
      BY <2>9, <2>t DEF LeaveLoop, LocalTypeOK, CommPcs
    <3>2. PoolTypeOK'
      BY <2>9, <2>t DEF LeaveLoop, PoolTypeOK, countVars
    <3> QED
      BY <2>9, <3>1, <3>2, <2>a, <2>d DEF LeaveLoop, TypeOK
  <2>10. CASE ShareAccepted
    <3>1. LocalTypeOK'
      BY <2>10, <2>t
      DEF ShareAccepted, LocalTypeOK, CommPcs, NoSolution, Solutions
    <3>2. PoolTypeOK'
      BY <2>10, <2>t DEF ShareAccepted, PoolTypeOK, poolVars
    <3> QED
      BY <2>10, <3>1, <3>2, <2>a, <2>d DEF ShareAccepted, TypeOK
  <2>11. CASE ShareRejected
    <3>1. LocalTypeOK'
      BY <2>11, <2>t
      DEF ShareRejected, LocalTypeOK, CommPcs, NoSolution, Solutions
    <3>2. PoolTypeOK'
      BY <2>11, <2>t DEF ShareRejected, PoolTypeOK, poolVars
    <3> QED
      BY <2>11, <3>1, <3>2, <2>a, <2>d DEF ShareRejected, TypeOK
  <2>12. CASE ShareFailed
    <3>1. LocalTypeOK'
      BY <2>12, <2>t
      DEF ShareFailed, LocalTypeOK, CommPcs, NoSolution, Solutions
    <3>2. PoolTypeOK'
      <4>1. solutions' \in Seq(Solutions)
        BY <2>12, <2>t DEF ShareFailed, PoolTypeOK, LocalTypeOK
      <4> QED
        BY <2>12, <4>1, <2>t DEF ShareFailed, PoolTypeOK, countVars, poolVars
    <3> QED
      BY <2>12, <3>1, <3>2, <2>a, <2>d DEF ShareFailed, TypeOK
  <2>13. CASE CheckShares
    <3>1. LocalTypeOK'
      <4>1. /\ cpc' \in CommPcs
            /\ obj' \in {0, obj}
            /\ cDeadline' \in {UntilOuter(now), cDeadline}
            /\ UNCHANGED <<tries, prevBlck, target, solution>>
        BY <2>13 DEF CheckShares, CommPcs
      <4> QED
        BY <4>1, <2>t DEF LocalTypeOK
    <3>2. PoolTypeOK'
      BY <2>13, <2>t DEF CheckShares, PoolTypeOK, countVars
    <3> QED
      BY <2>13, <3>1, <3>2, <2>a, <2>d DEF CheckShares, TypeOK
  <2>14. CASE Rested
    <3>1. LocalTypeOK'
      BY <2>14, <2>t DEF Rested, LocalTypeOK, CommPcs, localVars
    <3> QED
      BY <2>14, <3>1, <2>a, <2>c, <2>d DEF Rested, TypeOK
  <2>15. CASE GetBlockSummary
    <3>0. obj \in Miners
      BY <2>15, <2>t, MinersBounds DEF GetBlockSummary, LocalTypeOK
    <3>1. LocalTypeOK'
      BY <2>15, <2>t DEF GetBlockSummary, LocalTypeOK
    <3>2. PoolTypeOK'
      <4>1. lastHashes' \in Nat
        BY <2>15, <3>0, <2>t DEF GetBlockSummary, PoolTypeOK, MinerTypeOK
      <4> QED
        BY <2>15, <4>1, <2>t DEF GetBlockSummary, PoolTypeOK, countVars
    <3>3. MinerTypeOK'
      BY <2>15, <2>t DEF GetBlockSummary, SummaryLeft, MinerTypeOK
    <3> QED
      BY <2>15, <3>1, <3>2, <3>3, <2>a DEF GetBlockSummary, TypeOK
  <2>16. CASE ResetMiningBlock
    <3>1. LocalTypeOK'
      BY <2>16, <2>t DEF ResetMiningBlock, LocalTypeOK, CommPcs, localVars
    <3>2. PoolTypeOK'
      BY <2>16, <2>t, EmptySeq
      DEF ResetMiningBlock, SolutionsLeft, PoolTypeOK, poolVars
    <3> QED
      BY <2>16, <3>1, <3>2, <2>a, <2>d DEF ResetMiningBlock, TypeOK
  <2>17. CASE JoinMineThreads
    <3>1. LocalTypeOK'
      BY <2>17, <2>t DEF JoinMineThreads, LocalTypeOK, CommPcs, localVars
    <3> QED
      BY <2>17, <3>1, <2>a, <2>c, <2>d DEF JoinMineThreads, TypeOK
  <2>18. ASSUME NEW m \in Miners, Mine(m) PROVE TypeOK'
    <3>1. ClockTypeOK' /\ LocalTypeOK'
      BY <2>18, <2>a, <2>b
      DEF Mine, WaitTarget, MineLoop, Hash, MineRested, SetBlockSummary,
          DoneTarget, commVars
    <3>2. PoolTypeOK'
      <4>1. UNCHANGED <<countVars, poolVars>>
        BY <2>18
        DEF Mine, WaitTarget, MineLoop, Hash, MineRested, SetBlockSummary,
            DoneTarget, commVars
      <4>2. solutions' \in Seq(Solutions)
        <5>1. [blck |-> blckNo[m], thread |-> m, nonce |-> counter[m]]
                \in Solutions
          BY <2>t, MinersBounds DEF Solutions, MinerTypeOK
        <5>2. CASE Hash(m)
          BY <5>1, <5>2, <2>t DEF Hash, PoolTypeOK
        <5> QED
          BY <2>18, <5>2, <2>t
          DEF Mine, WaitTarget, MineLoop, MineRested, SetBlockSummary,
              DoneTarget, PoolTypeOK
      <4> QED
        BY <4>1, <4>2, <2>t DEF PoolTypeOK, countVars, poolVars
    <3>3. MinerTypeOK'
      <4> USE DEF MinerTypeOK
      <4>1. CASE WaitTarget(m)
        BY <4>1, <2>t DEF WaitTarget, MinePcs
      <4>2. CASE MineLoop(m)
        <5>1. /\ mpc' \in [Miners -> MinePcs]
              /\ \/ UNCHANGED mDeadline
                 \/ mDeadline' = [mDeadline EXCEPT ![m] = UntilOuter(now)]
              /\ UNCHANGED <<blckNo, counter, computed>>
          BY <4>2, <2>t DEF MineLoop, MinePcs
        <5> QED
          BY <5>1, <2>t
      <4>3. CASE Hash(m)
        BY <4>3, <2>t DEF Hash, MinePcs
      <4>4. CASE MineRested(m)
        BY <4>4, <2>t DEF MineRested, MinePcs
      <4>5. CASE SetBlockSummary(m)
        BY <4>5, <2>t DEF SetBlockSummary, MinePcs
      <4>6. CASE DoneTarget(m)
        BY <4>6, <2>t DEF DoneTarget, MinePcs
      <4> QED
        BY <2>18, <4>1, <4>2, <4>3, <4>4, <4>5, <4>6 DEF Mine
    <3> QED
      BY <3>1, <3>2, <3>3 DEF TypeOK
  <2>19. CASE Stop
    BY <2>19, <2>t, <2>b, <2>c, <2>d DEF Stop, ClockTypeOK, TypeOK, clockVars
  <2>20. CASE Tick \/ PoolNewBlock
    <3>1. /\ now' \in {now, now + 1} /\ poolBlck' \in {poolBlck, poolBlck + 1}
          /\ running' = running
      BY <2>20 DEF Tick, PoolNewBlock
    <3>2. ClockTypeOK'
      BY <3>1, <2>t DEF ClockTypeOK
    <3> QED
      BY <2>20, <3>2, <2>b, <2>c, <2>d DEF Tick, PoolNewBlock, TypeOK
  <2>21. CASE UNCHANGED vars
    BY <2>21, <2>a, <2>b, <2>c, <2>d DEF vars, TypeOK
  <2> QED
    BY <2>1, <2>2, <2>3, <2>4, <2>5, <2>6, <2>7, <2>8, <2>9, <2>10, <2>11,
       <2>12, <2>13, <2>14, <2>15, <2>16, <2>17, <2>18, <2>19, <2>20, <2>21
    DEF Next, Communicate, Ended
<1> QED
  BY <1>1, <1>2, PTL DEF Spec

-----------------------------------------------------------------------------
(* The hand-over of targets.  A step of the comm thread that leaves the    *)
(* mine objects alone is easy: what matters is when it reaches a part of   *)
(* its loop where more is known of them.                                   *)

\* What a thread is free of does not depend on the comm thread.
LEMMA FreeKept ==
  ASSUME UNCHANGED minerVars, NEW m \in Miners
  PROVE  Free(m)' <=> Free(m)
BY DEF minerVars, Free, Mining

\* A step of the comm thread that changes neither the mine objects nor the
\* target keeps what relates the two.
LEMMA MinersKept ==
  ASSUME UNCHANGED <<minerVars, target>>, MinesTarget, WaitsForTarget
  PROVE  MinesTarget' /\ WaitsForTarget'
BY DEF minerVars, MinesTarget, WaitsForTarget, Mining

\* A step of thread m leaves the objects of the others alone, and a free
\* thread free: WaitTarget does not return to it unless the program stops.
LEMMA MineSteps ==
  ASSUME MinerTypeOK, NEW m \in Miners, Mine(m)
  PROVE  /\ \A k \in Miners \ {m} :
              /\ mpc'[k] = mpc[k] /\ blckNo'[k] = blckNo[k]
              /\ computed'[k] = computed[k]
         /\ Free(m) => Free(m)' /\ solutions' = solutions
         /\ UNCHANGED <<running, cpc, obj, target, solution>>
<1> USE DEF MinerTypeOK
<1>1. CASE WaitTarget(m)
  BY <1>1 DEF WaitTarget, TargetReady, Free, Mining, commVars, localVars
<1>2. CASE MineLoop(m)
  BY <1>2 DEF MineLoop, Free, Mining, commVars, localVars
<1>3. CASE Hash(m)
  BY <1>3 DEF Hash, Free, Mining, commVars, localVars
<1>4. CASE MineRested(m)
  BY <1>4 DEF MineRested, Free, Mining, commVars, localVars
<1>5. CASE SetBlockSummary(m)
  BY <1>5 DEF SetBlockSummary, Free, Mining, commVars, localVars
<1>6. CASE DoneTarget(m)
  BY <1>6 DEF DoneTarget, Free, Mining, commVars, localVars
<1> QED
  BY <1>1, <1>2, <1>3, <1>4, <1>5, <1>6 DEF Mine

\* A share of the block of the others may join them.
LEMMA AppendedBlck ==
  ASSUME NEW s \in Seq(Solutions), NEW r \in Solutions, NEW b,
         \A i \in 1 .. Len(s) : s[i].blck = b, r.blck = b
  PROVE  \A i \in 1 .. Len(Append(s, r)) : Append(s, r)[i].blck = b
<1>1. /\ Len(s) \in Nat /\ Len(Append(s, r)) = Len(s) + 1
      /\ Append(s, r)[Len(s) + 1] = r
      /\ \A i \in 1 .. Len(s) : Append(s, r)[i] = s[i]
  BY AppendProperties
<1>2. \A i \in 1 .. Len(s) + 1 : i \in 1 .. Len(s) \/ i = Len(s) + 1
  BY <1>1
<1> QED
  BY <1>1, <1>2

\* A step of thread m keeps the invariant.
LEMMA MineKeepsHandOver ==
  ASSUME TypeOK, HandOverInv, NEW m \in Miners, Mine(m)
  PROVE  HandOverInv'
<1>t. MinerTypeOK /\ LocalTypeOK /\ PoolTypeOK
  BY DEF TypeOK
<1>i. /\ MinesTarget /\ WaitsForTarget /\ HandsToFree /\ ClosesFree
      /\ AllFreeBetween /\ SharesBlck
  BY DEF HandOverInv
<1>s. /\ \A k \in Miners \ {m} :
           /\ mpc'[k] = mpc[k] /\ blckNo'[k] = blckNo[k]
           /\ computed'[k] = computed[k]
      /\ Free(m) => Free(m)' /\ solutions' = solutions
      /\ UNCHANGED <<running, cpc, obj, target, solution>>
  BY <1>t, MineSteps
<1>f. \A k \in Miners : Free(k) => Free(k)'
  BY <1>s DEF Free, Mining
<1>1. /\ Mining(m)' => blckNo'[m] = target.blck + 1 /\ computed'[m] = 0
      /\ mpc'[m] = "wait" =>
           /\ blckNo'[m] \in {0, target.blck + 1}
           /\ computed'[m] > 0 => blckNo'[m] = 0
  <2> USE <1>t, <1>i DEF MinerTypeOK, MinesTarget, WaitsForTarget, Mining
  <2>1. CASE WaitTarget(m)
    BY <2>1 DEF WaitTarget, TargetReady
  <2>2. CASE MineLoop(m)
    BY <2>2 DEF MineLoop
  <2>3. CASE Hash(m)
    BY <2>3 DEF Hash
  <2>4. CASE MineRested(m)
    BY <2>4 DEF MineRested
  <2>5. CASE SetBlockSummary(m)
    BY <2>5 DEF SetBlockSummary
  <2>6. CASE DoneTarget(m)
    BY <2>6 DEF DoneTarget
  <2> QED
    BY <2>1, <2>2, <2>3, <2>4, <2>5, <2>6 DEF Mine
<1>2. MinesTarget' /\ WaitsForTarget'
  BY <1>1, <1>s, <1>i DEF MinesTarget, WaitsForTarget, Mining
<1>3. HandsToFree' /\ ClosesFree'
  BY <1>f, <1>s, <1>i DEF HandsToFree, ClosesFree
<1>4. AllFreeBetween'
  BY <1>f, <1>s, <1>i DEF AllFreeBetween, InBlock
<1>5. SharesBlck'
  <2>1. CASE Hash(m)
    <3> DEFINE r == [blck |-> blckNo[m], thread |-> m, nonce |-> counter[m]]
    <3>1. blckNo[m] = target.blck + 1
      BY <2>1, <1>i DEF Hash, MinesTarget, Mining
    <3>2. r \in Solutions /\ r.blck = target.blck + 1
      BY <3>1, <1>t, MinersBounds DEF Solutions, MinerTypeOK
    <3>3. solutions' \in {solutions, Append(solutions, r)}
      BY <2>1 DEF Hash
    <3> HIDE DEF r
    <3>4. \A i \in 1 .. Len(solutions) : solutions[i].blck = target.blck + 1
      BY <1>i DEF SharesBlck
    <3>5. solutions \in Seq(Solutions)
      BY <1>t DEF PoolTypeOK
    <3>6. \A i \in 1 .. Len(solutions') :
            solutions'[i].blck = target.blck + 1
      BY <3>2, <3>3, <3>4, <3>5, AppendedBlck
    <3> QED
      BY <3>6, <1>s, <1>i DEF SharesBlck
  <2>2. CASE UNCHANGED solutions
    BY <2>2, <1>s, <1>i DEF SharesBlck
  <2> QED
    BY <2>1, <2>2
    DEF Mine, WaitTarget, MineLoop, MineRested, SetBlockSummary, DoneTarget
<1> QED
  BY <1>2, <1>3, <1>4, <1>5 DEF HandOverInv

\* Most steps of the comm thread touch neither a mine object nor a share, and
\* reach no part of its loop where more is known of the mine objects.
LEMMA QuietStepKeepsHandOver ==
  ASSUME HandOverInv, UNCHANGED <<minerVars, target, running, solutions>>,
         cpc' \notin {"hand", "submit"}, cpc' = "close" => obj' = 0,
         running /\ InBlock => InBlock'
  PROVE  HandOverInv'
<1>i. /\ MinesTarget /\ WaitsForTarget /\ AllFreeBetween /\ SharesBlck
  BY DEF HandOverInv
<1>1. MinesTarget' /\ WaitsForTarget'
  BY <1>i, MinersKept
<1>2. HandsToFree'
  BY DEF HandsToFree
<1>3. ClosesFree'
  BY MinersBounds DEF ClosesFree
<1>4. AllFreeBetween'
  BY <1>i, FreeKept DEF AllFreeBetween
<1>5. SharesBlck'
  BY <1>i DEF SharesBlck
<1> QED
  BY <1>1, <1>2, <1>3, <1>4, <1>5 DEF HandOverInv

\* GetTarget returns between two blocks only, when no thread minds.
LEMMA TargetAnsweredKeepsHandOver ==
  ASSUME TypeOK, HandOverInv, TargetAnswered
  PROVE  HandOverInv'
<1>i. /\ MinesTarget /\ WaitsForTarget /\ AllFreeBetween /\ SharesBlck
  BY DEF HandOverInv
<1>0. /\ cpc = "get" /\ UNCHANGED <<minerVars, running, solutions>>
      /\ ~InBlock
  BY DEF TargetAnswered, InBlock
<1>1. \/ cpc' \in {"get", "join"} /\ UNCHANGED target
      \/ cpc' = "hand" /\ running
  BY DEF TargetAnswered, GotTarget
<1>2. CASE cpc' \in {"get", "join"} /\ UNCHANGED target
  <2>1. cpc' \notin {"hand", "submit"} /\ cpc' # "close"
    BY <1>2
  <2> QED
    BY <1>0, <1>2, <2>1, QuietStepKeepsHandOver
<1>3. CASE cpc' = "hand" /\ running
  <2>1. solutions = << >> /\ \A m \in Miners : Free(m)
    BY <1>0, <1>3, <1>i DEF AllFreeBetween
  <2>2. MinesTarget' /\ WaitsForTarget'
    BY <1>0, <2>1 DEF MinesTarget, WaitsForTarget, Free, Mining, minerVars
  <2>3. HandsToFree'
    BY <1>0, <2>1, FreeKept DEF HandsToFree
  <2>4. ClosesFree' /\ AllFreeBetween'
    BY <1>3 DEF ClosesFree, AllFreeBetween, InBlock
  <2>5. SharesBlck'
    <3>1. solutions' = << >> /\ cpc' # "submit" /\ Len(<< >>) = 0
      BY <1>0, <1>3, <2>1
    <3> QED
      BY <3>1 DEF SharesBlck
  <2> QED
    BY <2>2, <2>3, <2>4, <2>5 DEF HandOverInv
<1> QED
  BY <1>1, <1>2, <1>3

\* NewTarget is called on a free mine object.
LEMMA NewTargetKeepsHandOver ==
  ASSUME TypeOK, HandOverInv, NewTarget
  PROVE  HandOverInv'
<1>t. MinerTypeOK /\ LocalTypeOK
  BY DEF TypeOK
<1>i. /\ MinesTarget /\ WaitsForTarget /\ HandsToFree /\ SharesBlck
  BY DEF HandOverInv
<1>0. /\ cpc = "hand" /\ cpc' = "hand" /\ obj' = obj + 1
      /\ blckNo' = [blckNo EXCEPT ![obj] = target.blck + 1]
      /\ UNCHANGED <<mpc, computed, target, solution, solutions, running>>
  BY DEF NewTarget
<1>1. obj \in Miners /\ obj \in Nat /\ \A m \in Miners : m \in Nat
  BY <1>t, MinersBounds DEF NewTarget, LocalTypeOK
<1>2. Free(obj)
  BY <1>0, <1>1, <1>i DEF HandsToFree
<1>3. MinesTarget'
  BY <1>0, <1>2, <1>i, <1>t DEF MinesTarget, Mining, Free, MinerTypeOK
<1>4. WaitsForTarget'
  BY <1>0, <1>2, <1>i, <1>t DEF WaitsForTarget, Free, MinerTypeOK
<1>5. HandsToFree'
  <2> SUFFICES ASSUME NEW m \in Miners, m >= obj + 1
               PROVE  Free(m)'
    BY <1>0 DEF HandsToFree
  <2>1. m >= obj /\ m # obj
    BY <1>1
  <2>2. Free(m)
    BY <1>0, <1>i, <2>1 DEF HandsToFree
  <2> QED
    BY <1>0, <1>t, <2>1, <2>2 DEF Free, Mining, MinerTypeOK
<1>6. ClosesFree' /\ AllFreeBetween'
  BY <1>0 DEF ClosesFree, AllFreeBetween, InBlock
<1>7. SharesBlck'
  BY <1>0, <1>i DEF SharesBlck
<1> QED
  BY <1>3, <1>4, <1>5, <1>6, <1>7 DEF HandOverInv

\* A step of the submitting loop moves shares of the target about.
LEMMA ShareStepKeepsHandOver ==
  ASSUME HandOverInv, UNCHANGED <<minerVars, target, running>>,
         cpc' \in {"submit", "check"}, SharesBlck'
  PROVE  HandOverInv'
<1>1. MinesTarget' /\ WaitsForTarget'
  BY MinersKept DEF HandOverInv
<1>2. HandsToFree' /\ ClosesFree' /\ AllFreeBetween'
  BY DEF HandsToFree, ClosesFree, AllFreeBetween, InBlock
<1> QED
  BY <1>1, <1>2 DEF HandOverInv

\* The last share is taken, the others stay where they are.
LEMMA PoppedProperties ==
  ASSUME solutions \in Seq(Solutions), solutions # << >>
  PROVE  /\ Len(solutions) \in 1 .. Len(solutions)
         /\ Len(Popped) = Len(solutions) - 1
         /\ \A i \in 1 .. Len(Popped) :
              i \in 1 .. Len(solutions) /\ Popped[i] = solutions[i]
<1> DEFINE n == Len(solutions) - 1
<1>1. n \in Nat /\ 1 \in Int /\ n - 1 + 1 = n
  OBVIOUS
<1>2. \A i \in 1 .. n : solutions[i] \in Solutions
  OBVIOUS
<1>3. /\ Len(SubSeq(solutions, 1, n)) = IF 1 <= n THEN n - 1 + 1 ELSE 0
      /\ \A i \in 1 .. n - 1 + 1 :
           SubSeq(solutions, 1, n)[i] = solutions[1 + i - 1]
  BY <1>1, <1>2, SubSeqProperties
<1>4. \A i \in 1 .. n : 1 + i - 1 = i
  BY <1>1
<1> QED
  BY <1>1, <1>3, <1>4 DEF Popped

LEMMA GetSolutionKeepsHandOver ==
  ASSUME TypeOK, HandOverInv, GetSolution
  PROVE  HandOverInv'
<1>i. /\ solutions \in Seq(Solutions)
      /\ \A i \in 1 .. Len(solutions) : solutions[i].blck = target.blck + 1
  BY DEF HandOverInv, SharesBlck, TypeOK, PoolTypeOK
<1>0. /\ UNCHANGED <<minerVars, target, running>>
      /\ \/ cpc' = "check" /\ UNCHANGED solutions
         \/ /\ cpc' = "submit" /\ solutions # << >>
            /\ solution' = solutions[Len(solutions)]
            /\ solutions' = Popped
  BY DEF GetSolution
<1>1. CASE cpc' = "check" /\ UNCHANGED solutions
  <2>1. SharesBlck'
    BY <1>0, <1>1, <1>i DEF SharesBlck
  <2> QED
    BY <1>0, <1>1, <2>1, ShareStepKeepsHandOver
<1>2. CASE /\ cpc' = "submit" /\ solutions # << >>
           /\ solution' = solutions[Len(solutions)]
           /\ solutions' = Popped
  <2>1. Len(solutions) \in Nat \ {0}
    BY <1>2, <1>i
  <2>2. /\ Len(Popped) = Len(solutions) - 1
        /\ \A i \in 1 .. Len(solutions) - 1 : Popped[i] = solutions[i]
    BY <1>i, <2>1, PoppedProperties
  <2>3. SharesBlck'
    BY <1>0, <1>2, <1>i, <2>1, <2>2 DEF SharesBlck
  <2> QED
    BY <1>0, <1>2, <2>3, ShareStepKeepsHandOver
<1> QED
  BY <1>0, <1>1, <1>2

LEMMA ShareFailedKeepsHandOver ==
  ASSUME TypeOK, HandOverInv, ShareFailed
  PROVE  HandOverInv'
<1>i. /\ solutions \in Seq(Solutions) /\ solution \in Solutions
      /\ \A i \in 1 .. Len(solutions) : solutions[i].blck = target.blck + 1
  BY DEF HandOverInv, SharesBlck, TypeOK, PoolTypeOK, LocalTypeOK
<1>0. /\ UNCHANGED <<minerVars, target, running>>
      /\ cpc = "submit" /\ cpc' = "check"
      /\ solutions' = Append(solutions, solution)
  BY DEF ShareFailed
<1>1. solution.blck = target.blck + 1
  BY <1>0 DEF HandOverInv, SharesBlck
<1>2. \A i \in 1 .. Len(solutions') : solutions'[i].blck = target.blck + 1
  BY <1>0, <1>1, <1>i, AppendedBlck
<1>3. SharesBlck'
  BY <1>0, <1>2 DEF SharesBlck
<1> QED
  BY <1>0, <1>3, ShareStepKeepsHandOver

\* A summary is there only when its thread has left the target.
LEMMA GetBlockSummaryKeepsHandOver ==
  ASSUME TypeOK, HandOverInv, GetBlockSummary
  PROVE  HandOverInv'
<1>t. MinerTypeOK /\ LocalTypeOK
  BY DEF TypeOK
<1>i. /\ MinesTarget /\ WaitsForTarget /\ ClosesFree /\ SharesBlck
  BY DEF HandOverInv
<1>0. /\ cpc = "close" /\ cpc' = "close" /\ obj' = obj + 1
      /\ ~running \/ computed[obj] > 0
      /\ computed' = [computed EXCEPT ![obj] = 0]
      /\ UNCHANGED <<mpc, blckNo, target, solution, solutions, running>>
  BY DEF GetBlockSummary, SummaryReady, SummaryLeft
<1>1. obj \in Miners /\ obj \in Nat /\ \A m \in Miners : m \in Nat
  BY <1>t, MinersBounds DEF GetBlockSummary, LocalTypeOK
<1>2. MinesTarget'
  BY <1>0, <1>1, <1>i, <1>t DEF MinesTarget, Mining, MinerTypeOK
<1>3. WaitsForTarget'
  BY <1>0, <1>1, <1>i, <1>t DEF WaitsForTarget, MinerTypeOK
<1>4. ClosesFree'
  <2> SUFFICES ASSUME running, NEW m \in Miners, m < obj + 1
               PROVE  Free(m)'
    BY <1>0 DEF ClosesFree
  <2>1. CASE m = obj
    <3>1. computed[m] > 0 /\ computed[m] # 0
      BY <1>0, <2>1, <1>t DEF MinerTypeOK
    <3>2. ~Mining(m) /\ (mpc[m] = "wait" => blckNo[m] = 0)
      BY <3>1, <1>i DEF MinesTarget, WaitsForTarget
    <3>3. computed'[m] = 0
      BY <1>0, <1>1, <2>1, <1>t DEF MinerTypeOK
    <3> QED
      BY <1>0, <3>2, <3>3 DEF Free, Mining
  <2>2. CASE m # obj
    <3>1. Free(m)
      BY <1>0, <1>1, <1>i, <2>2 DEF ClosesFree
    <3> QED
      BY <1>0, <1>t, <2>2, <3>1 DEF Free, Mining, MinerTypeOK
  <2> QED
    BY <2>1, <2>2
<1>5. HandsToFree' /\ AllFreeBetween'
  BY <1>0 DEF HandsToFree, AllFreeBetween, InBlock
<1>6. SharesBlck'
  BY <1>0, <1>i DEF SharesBlck
<1> QED
  BY <1>2, <1>3, <1>4, <1>5, <1>6 DEF HandOverInv

\* When all the summaries are collected all the threads are free.
LEMMA ResetMiningBlockKeepsHandOver ==
  ASSUME HandOverInv, ResetMiningBlock
  PROVE  HandOverInv'
<1>i. /\ MinesTarget /\ WaitsForTarget /\ ClosesFree
  BY DEF HandOverInv
<1>0. /\ cpc = "close" /\ obj = ThreadsCount /\ cpc' \in {"top", "join"}
      /\ solutions' = << >>
      /\ UNCHANGED <<minerVars, target, running>>
  BY DEF ResetMiningBlock, SolutionsLeft, localVars
<1>1. MinesTarget' /\ WaitsForTarget'
  BY <1>0, <1>i, MinersKept
<1>2. HandsToFree' /\ ClosesFree'
  BY <1>0 DEF HandsToFree, ClosesFree
<1>3. AllFreeBetween'
  BY <1>0, <1>i, MinersBounds, FreeKept DEF AllFreeBetween, ClosesFree
<1>4. SharesBlck'
  <2>1. Len(<< >>) = 0 /\ cpc' # "submit"
    BY <1>0
  <2> QED
    BY <1>0, <2>1 DEF SharesBlck
<1> QED
  BY <1>1, <1>2, <1>3, <1>4 DEF HandOverInv

\* A step of the comm thread keeps the invariant.
LEMMA CommunicateKeepsHandOver ==
  ASSUME TypeOK, HandOverInv, Communicate
  PROVE  HandOverInv'
<1> USE DEF InBlock
<1>1. CASE Top
  BY <1>1, QuietStepKeepsHandOver DEF Top
<1>2. CASE AwaitedInner
  BY <1>2, QuietStepKeepsHandOver DEF AwaitedInner, localVars
<1>3. CASE TargetNotAnswered
  BY <1>3, QuietStepKeepsHandOver DEF TargetNotAnswered
<1>4. CASE AwaitedOuter
  BY <1>4, QuietStepKeepsHandOver DEF AwaitedOuter, localVars
<1>5. CASE SetMaxShares
  BY <1>5, QuietStepKeepsHandOver DEF SetMaxShares, localVars
<1>6. CASE LeaveLoop
  BY <1>6, QuietStepKeepsHandOver DEF LeaveLoop
<1>7. CASE ShareAccepted
  BY <1>7, QuietStepKeepsHandOver DEF ShareAccepted
<1>8. CASE ShareRejected
  BY <1>8, QuietStepKeepsHandOver DEF ShareRejected
<1>9. CASE CheckShares
  BY <1>9, QuietStepKeepsHandOver DEF CheckShares
<1>10. CASE Rested
  BY <1>10, QuietStepKeepsHandOver DEF Rested, localVars
<1>11. CASE JoinMineThreads
  BY <1>11, QuietStepKeepsHandOver DEF JoinMineThreads, localVars
<1> QED
  BY <1>1, <1>2, <1>3, <1>4, <1>5, <1>6, <1>7, <1>8, <1>9, <1>10, <1>11,
     TargetAnsweredKeepsHandOver, NewTargetKeepsHandOver,
     GetSolutionKeepsHandOver, ShareFailedKeepsHandOver,
     GetBlockSummaryKeepsHandOver, ResetMiningBlockKeepsHandOver
  DEF Communicate

\* The hand-over invariant holds, at whatever speed the threads run and
\* whatever the pool answers.
THEOREM HandOver == Spec => []HandOverInv
<1>1. Init => HandOverInv
  <2> SUFFICES ASSUME Init PROVE HandOverInv
    OBVIOUS
  <2>1. /\ solutions = << >> /\ Len(<< >>) = 0 /\ cpc = "top" /\ ~InBlock
        /\ \A m \in Miners : mpc[m] = "wait" /\ blckNo[m] = 0
                             /\ computed[m] = 0
    BY DEF Init, InBlock
  <2>2. \A m \in Miners : Free(m)
    BY <2>1 DEF Free, Mining
  <2>3. MinesTarget /\ WaitsForTarget
    BY <2>1 DEF MinesTarget, WaitsForTarget, Mining
  <2>4. HandsToFree /\ ClosesFree /\ AllFreeBetween /\ SharesBlck
    BY <2>1, <2>2 DEF HandsToFree, ClosesFree, AllFreeBetween, SharesBlck
  <2> QED
    BY <2>3, <2>4 DEF HandOverInv
<1>2. TypeOK /\ HandOverInv /\ [Next]_vars => HandOverInv'
  <2> SUFFICES ASSUME TypeOK, HandOverInv, [Next]_vars PROVE HandOverInv'
    OBVIOUS
  \* A step that is of no thread.
  <2>1. ASSUME UNCHANGED <<cpc, localVars, solutions, minerVars>>,
               running' => running
        PROVE  HandOverInv'
    <3>i. /\ MinesTarget /\ WaitsForTarget /\ HandsToFree /\ ClosesFree
          /\ AllFreeBetween /\ SharesBlck
      BY DEF HandOverInv
    <3>0. UNCHANGED <<obj, target, solution>>
      BY <2>1 DEF localVars
    <3>1. MinesTarget' /\ WaitsForTarget'
      BY <2>1, <3>0, <3>i, MinersKept
    <3>2. HandsToFree' /\ ClosesFree' /\ AllFreeBetween'
      BY <2>1, <3>0, <3>i, FreeKept
      DEF HandsToFree, ClosesFree, AllFreeBetween, InBlock
    <3>3. SharesBlck'
      BY <2>1, <3>0, <3>i DEF SharesBlck
    <3> QED
      BY <3>1, <3>2, <3>3 DEF HandOverInv
  <2>2. CASE Communicate
    BY <2>2, CommunicateKeepsHandOver
  <2>3. CASE \E m \in Miners : Mine(m)
    BY <2>3, MineKeepsHandOver
  <2>4. CASE Stop
    BY <2>4, <2>1 DEF Stop
  <2>5. CASE Tick
    BY <2>5, <2>1 DEF Tick
  <2>6. CASE PoolNewBlock
    BY <2>6, <2>1 DEF PoolNewBlock
  <2>7. CASE UNCHANGED vars
    BY <2>7, <2>1 DEF vars
  <2> QED
    BY <2>2, <2>3, <2>4, <2>5, <2>6, <2>7 DEF Next, Ended
<1> QED
  BY <1>1, <1>2, TypeCorrect, PTL DEF Spec

\* NewTarget never rewrites the fields of a mine object whose thread reads
\* them without the lock (mining.cpp:72-119).
THEOREM TargetsProtected == Spec => []NewTargetProtected
<1>1. HandOverInv => NewTargetProtected
  BY DEF HandOverInv, HandsToFree, Free, NewTargetProtected
<1> QED
  BY <1>1, HandOver, PTL

\* No share outlives its block: what is submitted with a target was found
\* with it.
THEOREM SharesMatchTarget == Spec => []SharesOfTarget
<1>1. HandOverInv => SharesOfTarget
  BY DEF HandOverInv, SharesBlck, SharesOfTarget
<1> QED
  BY <1>1, HandOver, PTL
-----------------------------------------------------------------------------
(* No share is queued twice.  Its number tells it from the other shares of *)
(* its thread, as long as the thread does not start to count again: it     *)
(* does that with the next target, when no share of it is left.            *)

Queued(s) == \/ \E i \in 1 .. Len(solutions) : solutions[i] = s
             \/ cpc = "submit" /\ solution = s

NumbersUsed == \A s \in Solutions : Queued(s) =>
  s.thread \in Miners /\ s.nonce < counter[s.thread]

\* A thread about to start to count has no share.
NoneBeforeStart == \A m \in Miners :
  (cpc = "hand" /\ m >= obj) \/ (mpc[m] = "wait" /\ blckNo[m] > 0)
    => \A s \in Solutions : Queued(s) => s.thread # m

SharesDifferInv == NumbersUsed /\ NoneBeforeStart /\ NoShareTwice

LEMMA MineKeepsDiffer ==
  ASSUME TypeOK, HandOverInv, SharesDifferInv, NEW m \in Miners, Mine(m)
  PROVE  SharesDifferInv'
<1>i. /\ NumbersUsed /\ NoneBeforeStart /\ NoShareTwice
      /\ counter \in [Miners -> Nat] /\ mpc \in [Miners -> MinePcs]
      /\ blckNo \in [Miners -> Nat] /\ solutions \in Seq(Solutions)
      /\ Miners \subseteq Nat
  BY MinersBounds DEF SharesDifferInv, TypeOK, MinerTypeOK, PoolTypeOK, Miners
<1>1. CASE WaitTarget(m) /\ running
  <2>1. /\ UNCHANGED <<cpc, obj, solution, solutions, blckNo>>
        /\ mpc' = [mpc EXCEPT ![m] = "mine"]
        /\ counter' = [counter EXCEPT ![m] = 0]
        /\ mpc[m] = "wait" /\ blckNo[m] > 0
    BY <1>1 DEF WaitTarget, commVars, localVars, TargetReady
  <2>2. \A s : Queued(s)' <=> Queued(s)
    BY <2>1 DEF Queued
  <2>3. \A s \in Solutions : Queued(s) => s.thread # m
    BY <1>i, <2>1 DEF NoneBeforeStart
  <2>4. NumbersUsed'
    BY <1>i, <2>1, <2>2, <2>3 DEF NumbersUsed
  <2>5. NoneBeforeStart'
    BY <1>i, <2>1, <2>2 DEF NoneBeforeStart
  <2>6. NoShareTwice'
    BY <1>i, <2>1 DEF NoShareTwice
  <2> QED  BY <2>4, <2>5, <2>6 DEF SharesDifferInv
<1>2. CASE Hash(m) /\ UNCHANGED solutions
  <2>1. /\ UNCHANGED <<cpc, obj, solution, solutions, blckNo>>
        /\ mpc' = [mpc EXCEPT ![m] = "mine"]
        /\ counter' = [counter EXCEPT ![m] = counter[m] + 1]
    BY <1>2 DEF Hash, commVars, localVars
  <2>2. \A s : Queued(s)' <=> Queued(s)
    BY <2>1 DEF Queued
  <2>3. NumbersUsed'
    <3> SUFFICES ASSUME NEW s \in Solutions, Queued(s)
                 PROVE  s.thread \in Miners /\ s.nonce < counter'[s.thread]
      BY <2>2 DEF NumbersUsed
    <3>1. s.thread \in Miners /\ s.nonce < counter[s.thread] /\ s.nonce \in Nat
      BY <1>i DEF NumbersUsed, Solutions
    <3> QED  BY <1>i, <2>1, <3>1
  <2>4. NoneBeforeStart'
    BY <1>i, <2>1, <2>2 DEF NoneBeforeStart
  <2>5. NoShareTwice'
    BY <1>i, <2>1 DEF NoShareTwice
  <2> QED  BY <2>3, <2>4, <2>5 DEF SharesDifferInv
<1>3. CASE Hash(m) /\ solutions' # solutions
  <2> DEFINE new == [blck |-> blckNo[m], thread |-> m, nonce |-> counter[m]]
  <2>1. /\ UNCHANGED <<cpc, obj, solution, blckNo>> /\ mpc[m] = "hash"
        /\ mpc' = [mpc EXCEPT ![m] = "mine"]
        /\ counter' = [counter EXCEPT ![m] = counter[m] + 1]
        /\ solutions' = Append(solutions, new)
    BY <1>3 DEF Hash, commVars, localVars
  <2>2. new \in Solutions /\ new.thread = m /\ new.nonce = counter[m]
    BY <1>i DEF Solutions
  <2>3. ~Queued(new)
    BY <1>i, <2>2 DEF NumbersUsed
  <2>4. /\ Len(solutions) \in Nat /\ Len(solutions') = Len(solutions) + 1
        /\ solutions'[Len(solutions) + 1] = new
        /\ \A i \in 1 .. Len(solutions) : solutions'[i] = solutions[i]
    BY <1>i, <2>1, <2>2
  <2> HIDE DEF new
  <2>5. \A s : Queued(s)' <=> Queued(s) \/ s = new
    BY <2>1, <2>4 DEF Queued
  <2>6. NumbersUsed'
    <3> SUFFICES ASSUME NEW s \in Solutions, Queued(s) \/ s = new
                 PROVE  s.thread \in Miners /\ s.nonce < counter'[s.thread]
      BY <2>5 DEF NumbersUsed
    <3>1. counter'[m] = counter[m] + 1 /\ counter[m] \in Nat
          /\ \A k \in Miners : k # m => counter'[k] = counter[k]
      BY <1>i, <2>1
    <3>2. CASE Queued(s)
      <4>1. s.thread \in Miners /\ s.nonce < counter[s.thread] /\ s.nonce \in Nat
        BY <1>i, <3>2 DEF NumbersUsed, Solutions
      <4> QED  BY <3>1, <4>1
    <3>3. CASE s = new
      BY <2>2, <3>1, <3>3
    <3> QED  BY <3>2, <3>3
  <2>7. ~(cpc = "hand" /\ m >= obj)
    BY <2>1 DEF HandOverInv, HandsToFree, Free, Mining
  <2>8. NoneBeforeStart'
    <3> SUFFICES ASSUME NEW k \in Miners, NEW s \in Solutions,
                        (cpc = "hand" /\ k >= obj) \/ (mpc'[k] = "wait" /\ blckNo[k] > 0),
                        Queued(s) \/ s = new
                 PROVE  s.thread # k
      BY <2>1, <2>5 DEF NoneBeforeStart
    <3>1. k # m /\ mpc'[k] = mpc[k]
      BY <1>i, <2>1, <2>7
    <3> QED  BY <1>i, <2>2, <3>1 DEF NoneBeforeStart
  <2>9. NoShareTwice'
    BY <1>i, <2>1, <2>3, <2>4 DEF NoShareTwice, Queued
  <2> QED  BY <2>6, <2>8, <2>9 DEF SharesDifferInv
<1>4. CASE \/ WaitTarget(m) /\ ~running
           \/ MineLoop(m) \/ MineRested(m) \/ SetBlockSummary(m)
  <2>1. /\ UNCHANGED <<cpc, obj, solution, solutions, blckNo, counter>>
        /\ \A k \in Miners : mpc'[k] = "wait" => mpc[k] = "wait"
    BY <1>4, <1>i DEF WaitTarget, MineLoop, MineRested, SetBlockSummary, commVars,
         localVars
  <2>2. \A s : Queued(s)' <=> Queued(s)
    BY <2>1 DEF Queued
  <2>3. NumbersUsed' /\ NoneBeforeStart'
    BY <1>i, <2>1, <2>2 DEF NumbersUsed, NoneBeforeStart
  <2>4. NoShareTwice'
    BY <1>i, <2>1 DEF NoShareTwice
  <2> QED  BY <2>3, <2>4 DEF SharesDifferInv
<1>5. CASE DoneTarget(m)
  <2>1. /\ UNCHANGED <<cpc, obj, solution, solutions, counter>>
        /\ blckNo' = [blckNo EXCEPT ![m] = 0]
        /\ \A k \in Miners : k # m => mpc'[k] = mpc[k]
    BY <1>5, <1>i DEF DoneTarget, commVars, localVars
  <2>2. \A s : Queued(s)' <=> Queued(s)
    BY <2>1 DEF Queued
  <2>3. \A k \in Miners : mpc'[k] = "wait" /\ blckNo'[k] > 0
          => mpc[k] = "wait" /\ blckNo[k] > 0
    BY <1>i, <2>1
  <2>4. NumbersUsed' /\ NoneBeforeStart'
    BY <1>i, <2>1, <2>2, <2>3 DEF NumbersUsed, NoneBeforeStart
  <2>5. NoShareTwice'
    BY <1>i, <2>1 DEF NoShareTwice
  <2> QED  BY <2>4, <2>5 DEF SharesDifferInv
<1> QED  BY <1>1, <1>2, <1>3, <1>4, <1>5 DEF Mine

\* A step that queues nothing and starts no thread.
LEMMA QuietStepKeepsDiffer ==
  ASSUME SharesDifferInv,
         \A s : Queued(s)' => Queued(s),
         NoShareTwice',
         UNCHANGED <<counter, mpc, blckNo>>,
         cpc' = "hand" => cpc = "hand" /\ UNCHANGED obj
  PROVE  SharesDifferInv'
BY DEF SharesDifferInv, NumbersUsed, NoneBeforeStart

LEMMA CommunicateKeepsDiffer ==
  ASSUME TypeOK, HandOverInv, SharesDifferInv, Communicate
  PROVE  SharesDifferInv'
<1>i. /\ NumbersUsed /\ NoneBeforeStart /\ NoShareTwice
      /\ solutions \in Seq(Solutions) /\ solution \in Solutions
      /\ obj \in Nat /\ blckNo \in [Miners -> Nat] /\ Miners \subseteq Nat
  BY MinersBounds
     DEF SharesDifferInv, TypeOK, LocalTypeOK, PoolTypeOK, MinerTypeOK, Miners
\* The steps that leave the queue, and are not of a share.
<1>1. ASSUME UNCHANGED <<solutions, counter, mpc, blckNo>>, cpc' # "submit",
             cpc' = "hand" => cpc = "hand" /\ UNCHANGED obj
      PROVE  SharesDifferInv'
  BY <1>1, <1>i, QuietStepKeepsDiffer DEF Queued, NoShareTwice
<1>2. CASE Top \/ AwaitedInner \/ TargetNotAnswered \/ AwaitedOuter \/ SetMaxShares
  BY <1>2, <1>1
     DEF Top, AwaitedInner, TargetNotAnswered, AwaitedOuter, SetMaxShares, minerVars
<1>3. CASE LeaveLoop \/ ShareAccepted \/ ShareRejected \/ CheckShares \/ Rested
  BY <1>3, <1>1
     DEF LeaveLoop, ShareAccepted, ShareRejected, CheckShares, Rested, minerVars
<1>4. CASE GetBlockSummary \/ JoinMineThreads
  BY <1>4, <1>1 DEF GetBlockSummary, JoinMineThreads, minerVars
<1>5. CASE TargetAnswered
  <2>1. /\ UNCHANGED <<solutions, counter, mpc, blckNo>> /\ cpc = "get"
        /\ cpc' \in {"get", "join"} \/ (cpc' = "hand" /\ running)
    <3>1. UNCHANGED <<solutions, counter, mpc, blckNo>> /\ cpc = "get"
      BY <1>5 DEF TargetAnswered, minerVars
    <3>2. cpc' = "get" \/ \E t : GotTarget(t)
      BY <1>5 DEF TargetAnswered
    <3> QED  BY <3>1, <3>2 DEF GotTarget
  <2>2. CASE cpc' \in {"get", "join"}
    BY <1>1, <2>1, <2>2
  <2>3. CASE cpc' = "hand" /\ running
    <3>1. solutions = << >>
      BY <2>1, <2>3 DEF HandOverInv, AllFreeBetween, InBlock
    <3>2. \A s : ~Queued(s)'
      BY <2>1, <2>3, <3>1 DEF Queued
    <3>3. NoShareTwice'
      BY <2>1, <2>3, <3>1 DEF NoShareTwice
    <3> QED  BY <3>2, <3>3 DEF SharesDifferInv, NumbersUsed, NoneBeforeStart
  <2> QED  BY <2>1, <2>2, <2>3
<1>6. CASE NewTarget
  <2>1. /\ UNCHANGED <<solutions, solution, cpc, counter, mpc>> /\ cpc = "hand"
        /\ obj' = obj + 1
        /\ \A m \in Miners : m # obj => blckNo'[m] = blckNo[m]
    BY <1>6, <1>i DEF NewTarget
  <2>2. \A s : Queued(s)' <=> Queued(s)
    BY <2>1 DEF Queued
  <2>3. NoneBeforeStart'
    <3> SUFFICES ASSUME NEW m \in Miners, NEW s \in Solutions, Queued(s),
                        m >= obj + 1 \/ (mpc[m] = "wait" /\ blckNo'[m] > 0)
                 PROVE  s.thread # m
      BY <2>1, <2>2 DEF NoneBeforeStart
    <3>1. m >= obj \/ (mpc[m] = "wait" /\ blckNo[m] > 0)
      BY <1>i, <2>1
    <3> QED  BY <1>i, <2>1, <3>1 DEF NoneBeforeStart
  <2>4. NumbersUsed' /\ NoShareTwice'
    BY <1>i, <2>1, <2>2 DEF NumbersUsed, NoShareTwice
  <2> QED  BY <2>3, <2>4 DEF SharesDifferInv
<1>7. CASE GetSolution /\ solutions = << >>
  BY <1>7, <1>1 DEF GetSolution, minerVars
<1>8. CASE GetSolution /\ solutions # << >>
  <2>1. /\ UNCHANGED <<counter, mpc, blckNo>> /\ cpc' = "submit"
        /\ solution' = solutions[Len(solutions)] /\ solutions' = Popped
    BY <1>8 DEF GetSolution, minerVars
  <2>2. /\ Len(solutions) \in 1 .. Len(solutions) /\ Len(solutions) \in Nat
        /\ Len(solutions') = Len(solutions) - 1
        /\ \A i \in 1 .. Len(solutions') :
             i \in 1 .. Len(solutions) /\ solutions'[i] = solutions[i]
    BY <1>8, <1>i, <2>1, PoppedProperties
  <2>3. \A s : Queued(s)' => Queued(s)
    BY <2>1, <2>2 DEF Queued
  <2>4. NoShareTwice'
    BY <1>i, <2>1, <2>2 DEF NoShareTwice
  <2> QED  BY <2>1, <2>3, <2>4, QuietStepKeepsDiffer
<1>9. CASE ShareFailed
  <2>1. /\ UNCHANGED <<counter, mpc, blckNo>> /\ cpc = "submit" /\ cpc' = "check"
        /\ solutions' = Append(solutions, solution)
    BY <1>9 DEF ShareFailed, minerVars
  <2>2. /\ Len(solutions) \in Nat /\ Len(solutions') = Len(solutions) + 1
        /\ solutions'[Len(solutions) + 1] = solution
        /\ \A i \in 1 .. Len(solutions) : solutions'[i] = solutions[i]
    BY <1>i, <2>1
  <2>3. \A s : Queued(s)' => Queued(s)
    BY <2>1, <2>2 DEF Queued
  <2>4. NoShareTwice'
    BY <1>i, <2>1, <2>2 DEF NoShareTwice
  <2> QED  BY <2>1, <2>3, <2>4, QuietStepKeepsDiffer
<1>10. CASE ResetMiningBlock
  <2>1. /\ UNCHANGED <<counter, mpc, blckNo>> /\ cpc' \in {"join", "top"}
        /\ solutions' = << >>
    BY <1>10 DEF ResetMiningBlock, SolutionsLeft, minerVars
  <2>2. \A s : ~Queued(s)'
    BY <2>1 DEF Queued
  <2>3. NoShareTwice'
    BY <2>1 DEF NoShareTwice
  <2> QED  BY <2>1, <2>2, <2>3, QuietStepKeepsDiffer
<1> QED
  BY <1>2, <1>3, <1>4, <1>5, <1>6, <1>7, <1>8, <1>9, <1>10 DEF Communicate

\* Whatever fails and is put back, no share is in m_pool_solutions twice, nor
\* there while it is being submitted (comm.cpp:690, mining.cpp:121).
THEOREM NoShareIsTwice == Spec => []NoShareTwice
<1>1. Init => SharesDifferInv
  <2> SUFFICES ASSUME Init PROVE SharesDifferInv
    OBVIOUS
  <2>1. solutions = << >> /\ Len(<< >>) = 0 /\ cpc = "top"
    BY DEF Init
  <2>2. \A s : ~Queued(s)
    BY <2>1 DEF Queued
  <2>3. NoShareTwice
    BY <2>1 DEF NoShareTwice
  <2> QED  BY <2>2, <2>3 DEF SharesDifferInv, NumbersUsed, NoneBeforeStart
<1>2. TypeOK /\ HandOverInv /\ SharesDifferInv /\ [Next]_vars => SharesDifferInv'
  <2> SUFFICES ASSUME TypeOK, HandOverInv, SharesDifferInv, [Next]_vars
               PROVE  SharesDifferInv'
    OBVIOUS
  <2>1. CASE \E m \in Miners : Mine(m)
    BY <2>1, MineKeepsDiffer
  <2>2. CASE Communicate
    BY <2>2, CommunicateKeepsDiffer
  <2>3. CASE Stop \/ Tick \/ PoolNewBlock \/ UNCHANGED vars
    <3>1. UNCHANGED <<cpc, obj, solution, solutions, counter, mpc, blckNo>>
      BY <2>3 DEF Stop, Tick, PoolNewBlock, vars, localVars, minerVars
    <3>2. \A s : Queued(s)' <=> Queued(s)
      BY <3>1 DEF Queued
    <3>3. NoShareTwice'
      BY <3>1 DEF SharesDifferInv, NoShareTwice
    <3> QED  BY <3>1, <3>2, <3>3, QuietStepKeepsDiffer
  <2> QED  BY <2>1, <2>2, <2>3 DEF Next, Ended
<1>3. SharesDifferInv => NoShareTwice
  BY DEF SharesDifferInv
<1> QED
  BY <1>1, <1>2, <1>3, TypeCorrect, HandOver, PTL DEF Spec

-----------------------------------------------------------------------------
(* The threads of a pool implement the rounds of BlockRounds: every step   *)
(* of BlockMining is a step of a round or leaves the round alone.  The     *)
(* hand-over invariant is what makes it so.                                *)

\* A step that changes none of what a round is made of.
LEMMA SameRound ==
  ASSUME UNCHANGED <<target, running, WorkingMiners, ReportedMiners,
                     ShareBlcks>>,
         InBlock' <=> InBlock
  PROVE  UNCHANGED Rounds!rvars
<1>1. InBlock' = InBlock /\ (~running)' = (~running)
  BY DEF InBlock
<1> QED
  BY <1>1 DEF Rounds!rvars

\* What the comm thread has no part in.
LEMMA SameMiners ==
  ASSUME UNCHANGED mpc
  PROVE  UNCHANGED WorkingMiners
BY DEF WorkingMiners, Mining

LEMMA SameReports ==
  ASSUME UNCHANGED computed, cpc # "close",
         cpc' # "close" \/ obj' = 0
  PROVE  UNCHANGED ReportedMiners
<1>1. \A m \in Miners : ~(cpc' = "close" /\ m < obj')
  BY MinersBounds
<1> QED
  BY <1>1 DEF ReportedMiners

LEMMA SameShares ==
  ASSUME UNCHANGED solutions, cpc # "submit", cpc' # "submit"
  PROVE  UNCHANGED ShareBlcks
BY DEF ShareBlcks

-----------------------------------------------------------------------------
\* A step of the comm thread outside its loops over the mine objects and the
\* shares does not change the round.
LEMMA QuietStepSameRound ==
  ASSUME UNCHANGED <<mpc, computed, target, running, solutions>>,
         cpc \notin {"close", "submit"}, cpc' # "submit",
         cpc' # "close" \/ obj' = 0,
         InBlock' <=> InBlock
  PROVE  UNCHANGED Rounds!rvars
<1>1. cpc # "close" /\ cpc # "submit"
  OBVIOUS
<1> QED
  BY <1>1, SameMiners, SameReports, SameShares, SameRound

\* A round begins when GetTarget returns to a program that still runs.
LEMMA TargetAnsweredBegins ==
  ASSUME TypeOK, HandOverInv, TargetAnswered
  PROVE  Rounds!Begin \/ UNCHANGED Rounds!rvars
<1>0. /\ cpc = "get" /\ ~InBlock
      /\ UNCHANGED <<mpc, computed, running, solutions>>
  BY DEF TargetAnswered, InBlock, minerVars
<1>1. \/ cpc' \in {"get", "join"} /\ UNCHANGED target
      \/ cpc' = "hand" /\ running /\ target'.blck = poolBlck
  BY DEF TargetAnswered, GotTarget
<1>2. CASE cpc' \in {"get", "join"} /\ UNCHANGED target
  <2>1. ~InBlock' /\ cpc' # "submit" /\ cpc' # "close"
    BY <1>2 DEF InBlock
  <2> QED
    BY <1>0, <1>2, <2>1, QuietStepSameRound
<1>3. CASE cpc' = "hand" /\ running /\ target'.blck = poolBlck
  <2>1. solutions = << >> /\ \A m \in Miners : Free(m)
    BY <1>0, <1>3 DEF HandOverInv, AllFreeBetween
  <2>2. WorkingMiners = {} /\ UNCHANGED WorkingMiners
    BY <1>0, <2>1, SameMiners DEF WorkingMiners, Free
  <2>3. ReportedMiners' = {}
    BY <1>0, <1>3, <2>1 DEF ReportedMiners, Free
  <2>4. ShareBlcks = {} /\ UNCHANGED ShareBlcks
    <3>1. Len(<< >>) = 0
      OBVIOUS
    <3>2. ShareBlcks = {}
      BY <1>0, <2>1, <3>1 DEF ShareBlcks
    <3> QED
      BY <1>0, <1>3, <3>2, SameShares
  <2>5. InBlock' /\ poolBlck \in Nat
    BY <1>3 DEF InBlock, TypeOK, ClockTypeOK
  <2>6. target'.blck \in Nat \cup {NoBlck}
    BY <1>3, <2>5
  <2> QED
    BY <1>0, <1>3, <2>2, <2>3, <2>4, <2>5, <2>6 DEF Rounds!Begin
<1> QED
  BY <1>1, <1>2, <1>3

\* The steps of the submitting loop are answers of the pool, or nothing.
LEMMA ShareStepAnswers ==
  ASSUME UNCHANGED <<mpc, computed, target, running>>, InBlock, InBlock',
         cpc # "close", cpc' # "close",
         ShareBlcks' \subseteq ShareBlcks
  PROVE  Rounds!Answer
<1>1. UNCHANGED <<WorkingMiners, ReportedMiners>>
  BY SameMiners, SameReports
<1>2. InBlock' = InBlock /\ (~running)' = (~running)
  BY DEF InBlock
<1> QED
  BY <1>1, <1>2 DEF Rounds!Answer

LEMMA GetSolutionAnswers ==
  ASSUME TypeOK, GetSolution
  PROVE  Rounds!Answer
<1>i. solutions \in Seq(Solutions)
  BY DEF TypeOK, PoolTypeOK
<1>0. /\ UNCHANGED <<mpc, computed, target, running>>
      /\ cpc = "loop" /\ cpc' \in {"check", "submit"}
      /\ \/ cpc' = "check" /\ UNCHANGED solutions
         \/ /\ cpc' = "submit" /\ solutions # << >>
            /\ solution' = solutions[Len(solutions)]
            /\ solutions' = Popped
  BY DEF GetSolution, minerVars
<1>1. InBlock /\ InBlock' /\ cpc # "close" /\ cpc' # "close"
  BY <1>0 DEF InBlock
<1>2. ShareBlcks' \subseteq ShareBlcks
  <2>1. CASE cpc' = "check" /\ UNCHANGED solutions
    BY <1>0, <2>1 DEF ShareBlcks
  <2>2. CASE /\ cpc' = "submit" /\ solutions # << >>
             /\ solution' = solutions[Len(solutions)]
             /\ solutions' = Popped
    <3>1. /\ Len(solutions) \in 1 .. Len(solutions)
          /\ Len(Popped) = Len(solutions) - 1
          /\ \A i \in 1 .. Len(Popped) :
               i \in 1 .. Len(solutions) /\ Popped[i] = solutions[i]
      BY <1>i, <2>2, PoppedProperties
    <3>2. {Popped[i].blck - 1 : i \in 1 .. Len(Popped)} \subseteq ShareBlcks
      BY <3>1 DEF ShareBlcks
    <3>3. solution'.blck - 1 \in ShareBlcks
      BY <3>1, <2>2 DEF ShareBlcks
    <3>4. ShareBlcks' = {Popped[i].blck - 1 : i \in 1 .. Len(Popped)}
                          \cup {solution'.blck - 1}
      BY <2>2 DEF ShareBlcks
    <3> QED
      BY <3>2, <3>3, <3>4
  <2> QED
    BY <1>0, <2>1, <2>2
<1> QED
  BY <1>0, <1>1, <1>2, ShareStepAnswers

\* A share that is put back is still one of the round.
LEMMA ShareAnswered ==
  ASSUME TypeOK, ShareAccepted \/ ShareRejected \/ ShareFailed
  PROVE  Rounds!Answer
<1>i. solutions \in Seq(Solutions) /\ solution \in Solutions
  BY DEF TypeOK, PoolTypeOK, LocalTypeOK
<1>0. /\ UNCHANGED <<mpc, computed, target, running>>
      /\ cpc = "submit" /\ cpc' = "check"
      /\ solutions' \in {solutions, Append(solutions, solution)}
  BY DEF ShareAccepted, ShareRejected, ShareFailed, minerVars
<1>1. InBlock /\ InBlock' /\ cpc # "close" /\ cpc' # "close"
  BY <1>0 DEF InBlock
<1>2. ShareBlcks' \subseteq ShareBlcks
  <2>1. CASE solutions' = solutions
    BY <1>0, <2>1 DEF ShareBlcks
  <2>2. CASE solutions' = Append(solutions, solution)
    <3>1. \A i \in 1 .. Len(solutions') :
            \/ i \in 1 .. Len(solutions) /\ solutions'[i] = solutions[i]
            \/ solutions'[i] = solution
      BY <1>i, <2>2, AppendProperties
    <3>2. \A i \in 1 .. Len(solutions') :
            solutions'[i].blck - 1 \in ShareBlcks
      BY <1>0, <3>1 DEF ShareBlcks
    <3> QED
      BY <1>0, <3>2 DEF ShareBlcks
  <2> QED
    BY <1>0, <2>1, <2>2
<1> QED
  BY <1>0, <1>1, <1>2, ShareStepAnswers

\* Once the program stops a thread is excused; before, it has reported.
LEMMA GetBlockSummaryExcuses ==
  ASSUME TypeOK, HandOverInv, GetBlockSummary
  PROVE  \/ UNCHANGED Rounds!rvars
         \/ \E m \in Miners : Rounds!Excuse(m)
<1>0. /\ cpc = "close" /\ cpc' = "close" /\ obj' = obj + 1
      /\ ~running \/ computed[obj] > 0
      /\ computed' = [computed EXCEPT ![obj] = 0]
      /\ UNCHANGED <<mpc, target, running, solutions>>
  BY DEF GetBlockSummary, SummaryReady, SummaryLeft
<1>1. /\ obj \in Miners /\ obj \in Nat /\ \A m \in Miners : m \in Nat
      /\ computed \in [Miners -> Nat]
  BY MinersBounds DEF GetBlockSummary, TypeOK, LocalTypeOK, MinerTypeOK
<1>2. ReportedMiners' = ReportedMiners \cup {obj}
  <2>1. \A m \in Miners : m < obj + 1 <=> m < obj \/ m = obj
    BY <1>1
  <2>2. \A m \in Miners \ {obj} : computed'[m] = computed[m]
    BY <1>0, <1>1
  <2> QED
    BY <1>0, <1>1, <2>1, <2>2 DEF ReportedMiners
<1>3. UNCHANGED <<WorkingMiners, ShareBlcks>>
  BY <1>0, SameMiners, SameShares
<1>4. InBlock /\ InBlock' /\ InBlock' = InBlock /\ (~running)' = (~running)
  BY <1>0 DEF InBlock
<1>5. CASE running
  <2>1. computed[obj] > 0
    BY <1>0, <1>5
  <2>2. ReportedMiners' = ReportedMiners
    BY <1>1, <1>2, <2>1 DEF ReportedMiners
  <2> QED
    BY <1>0, <1>3, <1>4, <2>2, SameRound
<1>6. CASE ~running
  BY <1>0, <1>1, <1>2, <1>3, <1>4, <1>6 DEF Rounds!Excuse
<1> QED
  BY <1>5, <1>6

\* A round ends when all have reported.
LEMMA ResetMiningBlockEnds ==
  ASSUME TypeOK, ResetMiningBlock
  PROVE  Rounds!End
<1>0. /\ cpc = "close" /\ obj = ThreadsCount /\ cpc' \in {"top", "join"}
      /\ solutions' = << >> /\ Len(<< >>) = 0
      /\ UNCHANGED <<mpc, computed, target, running>>
  BY DEF ResetMiningBlock, SolutionsLeft, minerVars, localVars
<1>1. ReportedMiners = Miners
  BY <1>0, MinersBounds DEF ReportedMiners
<1>2. ReportedMiners' \subseteq ReportedMiners
  BY <1>1 DEF ReportedMiners
<1>3. ShareBlcks' = {}
  BY <1>0 DEF ShareBlcks
<1>4. UNCHANGED WorkingMiners
  BY <1>0, SameMiners
<1>5. InBlock /\ InBlock' = FALSE /\ (~running)' = (~running)
  BY <1>0 DEF InBlock
<1> QED
  BY <1>0, <1>1, <1>2, <1>3, <1>4, <1>5 DEF Rounds!End

LEMMA CommunicateRounds ==
  ASSUME TypeOK, HandOverInv, Communicate
  PROVE  [Rounds!RoundNext]_Rounds!rvars
<1> USE DEF InBlock
<1>1. CASE Top
  BY <1>1, QuietStepSameRound DEF Top, minerVars
<1>2. CASE AwaitedInner
  BY <1>2, QuietStepSameRound DEF AwaitedInner, localVars, minerVars
<1>3. CASE TargetNotAnswered
  BY <1>3, QuietStepSameRound DEF TargetNotAnswered, minerVars
<1>4. CASE AwaitedOuter
  BY <1>4, QuietStepSameRound DEF AwaitedOuter, localVars, minerVars
<1>5. CASE NewTarget
  BY <1>5, QuietStepSameRound DEF NewTarget
<1>6. CASE SetMaxShares
  BY <1>6, QuietStepSameRound DEF SetMaxShares, localVars, minerVars
<1>7. CASE LeaveLoop
  BY <1>7, QuietStepSameRound DEF LeaveLoop, minerVars
<1>8. CASE CheckShares
  BY <1>8, QuietStepSameRound DEF CheckShares, minerVars
<1>9. CASE Rested
  BY <1>9, QuietStepSameRound DEF Rested, localVars, minerVars
<1>10. CASE JoinMineThreads
  BY <1>10, QuietStepSameRound DEF JoinMineThreads, localVars, minerVars
<1>11. CASE TargetAnswered
  BY <1>11, TargetAnsweredBegins DEF Rounds!RoundNext
<1>12. CASE GetSolution \/ ShareAccepted \/ ShareRejected \/ ShareFailed
  BY <1>12, GetSolutionAnswers, ShareAnswered DEF Rounds!RoundNext
<1>13. CASE GetBlockSummary
  BY <1>13, GetBlockSummaryExcuses DEF Rounds!RoundNext
<1>14. CASE ResetMiningBlock
  BY <1>14, ResetMiningBlockEnds DEF Rounds!RoundNext
<1> QED
  BY <1>1, <1>2, <1>3, <1>4, <1>5, <1>6, <1>7, <1>8, <1>9, <1>10, <1>11,
     <1>12, <1>13, <1>14 DEF Communicate

-----------------------------------------------------------------------------
\* A thread that gets a target of the round has not reported in it.
LEMMA WaitTargetWorks ==
  ASSUME TypeOK, HandOverInv, NEW m \in Miners, WaitTarget(m)
  PROVE  Rounds!Work(m) \/ UNCHANGED Rounds!rvars
<1>t. mpc \in [Miners -> MinePcs]
  BY DEF TypeOK, MinerTypeOK
<1>0. /\ mpc[m] = "wait"
      /\ ~running \/ blckNo[m] > 0
      /\ \/ running /\ mpc' = [mpc EXCEPT ![m] = "mine"]
         \/ ~running /\ mpc' = [mpc EXCEPT ![m] = "exited"]
      /\ UNCHANGED <<cpc, obj, computed, target, solution, solutions, running>>
  BY DEF WaitTarget, TargetReady, commVars, localVars
<1>1. UNCHANGED <<ReportedMiners, ShareBlcks>>
  BY <1>0 DEF ReportedMiners, ShareBlcks
<1>2. InBlock' = InBlock /\ (~running)' = (~running)
  BY <1>0 DEF InBlock
<1>3. CASE running /\ mpc' = [mpc EXCEPT ![m] = "mine"]
  <2>1. blckNo[m] > 0 /\ blckNo[m] # 0
    BY <1>0, <1>3 DEF TypeOK, MinerTypeOK
  <2>2. ~Free(m)
    BY <1>0, <2>1 DEF Free
  <2>3. InBlock /\ ~(cpc = "close" /\ m < obj)
    BY <1>3, <2>2 DEF HandOverInv, AllFreeBetween, ClosesFree
  <2>4. ~(computed[m] > 0)
    BY <1>0, <2>1 DEF HandOverInv, WaitsForTarget
  <2>5. m \notin WorkingMiners \cup ReportedMiners
    BY <1>0, <2>3, <2>4 DEF WorkingMiners, ReportedMiners, Mining
  <2>6. WorkingMiners' = WorkingMiners \cup {m}
    BY <1>t, <1>3 DEF WorkingMiners, Mining
  <2> QED
    BY <1>0, <1>1, <1>2, <1>3, <2>3, <2>5, <2>6 DEF Rounds!Work
<1>4. CASE ~running /\ mpc' = [mpc EXCEPT ![m] = "exited"]
  <2>1. UNCHANGED WorkingMiners
    BY <1>t, <1>0, <1>4 DEF WorkingMiners, Mining
  <2> QED
    BY <1>0, <1>1, <1>2, <2>1, SameRound
<1> QED
  BY <1>0, <1>3, <1>4

\* A share that a thread finds is one of the round.
LEMMA HashFinds ==
  ASSUME TypeOK, HandOverInv, NEW m \in Miners, Hash(m)
  PROVE  Rounds!Find(m) \/ UNCHANGED Rounds!rvars
<1> DEFINE r == [blck |-> blckNo[m], thread |-> m, nonce |-> counter[m]]
<1>t. /\ mpc \in [Miners -> MinePcs] /\ solutions \in Seq(Solutions)
      /\ r \in Solutions
  BY MinersBounds DEF TypeOK, MinerTypeOK, PoolTypeOK, Solutions
<1>0. /\ mpc[m] = "hash" /\ mpc' = [mpc EXCEPT ![m] = "mine"]
      /\ solutions' \in {solutions, Append(solutions, r)}
      /\ UNCHANGED <<cpc, obj, computed, target, solution, running>>
  BY DEF Hash, commVars, localVars
<1>1. UNCHANGED <<ReportedMiners, WorkingMiners>>
  BY <1>t, <1>0 DEF ReportedMiners, WorkingMiners, Mining
<1>2. InBlock' = InBlock /\ (~running)' = (~running)
  BY <1>0 DEF InBlock
<1>3. m \in WorkingMiners
  BY <1>0 DEF WorkingMiners, Mining
<1>4. r.blck - 1 = target.blck
  <2>1. r.blck = target.blck + 1
    BY <1>0 DEF HandOverInv, MinesTarget, Mining
  <2>2. target.blck \in Int
    BY DEF TypeOK, LocalTypeOK, Targets, NoTarget, NoBlck
  <2> QED
    BY <2>1, <2>2
<1> HIDE DEF r
<1>5. CASE solutions' = solutions
  <2>1. UNCHANGED ShareBlcks
    BY <1>0, <1>5 DEF ShareBlcks
  <2> QED
    BY <1>0, <1>1, <1>2, <2>1, SameRound
<1>6. CASE solutions' = Append(solutions, r)
  <2>1. /\ Len(solutions) \in Nat /\ Len(solutions') = Len(solutions) + 1
        /\ solutions'[Len(solutions) + 1] = r
        /\ \A i \in 1 .. Len(solutions) : solutions'[i] = solutions[i]
    BY <1>t, <1>6, AppendProperties
  <2>2. {solutions'[i].blck - 1 : i \in 1 .. Len(solutions')} =
          {solutions[i].blck - 1 : i \in 1 .. Len(solutions)}
            \cup {target.blck}
    BY <2>1, <1>4
  <2>3. ShareBlcks' = ShareBlcks \cup {target.blck}
    BY <1>0, <2>2 DEF ShareBlcks
  <2> QED
    BY <1>0, <1>1, <1>2, <1>3, <2>3 DEF Rounds!Find
<1> QED
  BY <1>0, <1>5, <1>6

\* A thread leaves the round with its summary, which may be of no hash.
LEMMA SetBlockSummaryLeaves ==
  ASSUME TypeOK, HandOverInv, NEW m \in Miners, SetBlockSummary(m)
  PROVE  Rounds!Leave(m)
<1>t. mpc \in [Miners -> MinePcs] /\ computed \in [Miners -> Nat]
  BY DEF TypeOK, MinerTypeOK
<1>0. /\ mpc[m] = "summary" /\ mpc' = [mpc EXCEPT ![m] = "done"]
      /\ computed' = [computed EXCEPT ![m] = counter[m]]
      /\ UNCHANGED <<cpc, obj, target, solution, solutions, running>>
  BY DEF SetBlockSummary, commVars, localVars
<1>1. m \in WorkingMiners /\ WorkingMiners' = WorkingMiners \ {m}
  BY <1>t, <1>0 DEF WorkingMiners, Mining
<1>2. UNCHANGED ShareBlcks
  BY <1>0 DEF ShareBlcks
<1>3. InBlock' = InBlock /\ (~running)' = (~running)
  BY <1>0 DEF InBlock
<1>4. ReportedMiners' \in {ReportedMiners, ReportedMiners \cup {m}}
  <2>1. computed[m] = 0
    BY <1>0 DEF HandOverInv, MinesTarget, Mining
  <2>2. \A k \in Miners \ {m} : computed'[k] = computed[k]
    BY <1>t, <1>0
  <2>3. \A k \in Miners \ {m} : k \in ReportedMiners' <=> k \in ReportedMiners
    BY <1>0, <2>2 DEF ReportedMiners
  <2>4. m \in ReportedMiners => m \in ReportedMiners'
    BY <1>0, <2>1 DEF ReportedMiners
  <2>5. ReportedMiners \subseteq Miners /\ ReportedMiners' \subseteq Miners
    BY DEF ReportedMiners
  <2> QED
    BY <2>3, <2>4, <2>5
<1> QED
  BY <1>0, <1>1, <1>2, <1>3, <1>4 DEF Rounds!Leave

\* What a thread does within its work, or after it, is no step of the round.
LEMMA QuietMineSameRound ==
  ASSUME TypeOK, NEW m \in Miners,
         MineLoop(m) \/ MineRested(m) \/ DoneTarget(m)
  PROVE  UNCHANGED Rounds!rvars
<1>t. mpc \in [Miners -> MinePcs]
  BY DEF TypeOK, MinerTypeOK
<1>0. /\ UNCHANGED <<cpc, obj, computed, target, solution, solutions, running>>
      /\ \E pc \in MinePcs :
           /\ mpc' = [mpc EXCEPT ![m] = pc]
           /\ \/ /\ mpc[m] \in {"mine", "rest"}
                 /\ pc \in {"mine", "hash", "rest", "summary"}
              \/ mpc[m] = "done" /\ pc \in {"wait", "exited"}
  BY DEF MineLoop, MineRested, DoneTarget, commVars, localVars, MinePcs
<1>1. UNCHANGED WorkingMiners
  BY <1>t, <1>0 DEF WorkingMiners, Mining
<1>2. UNCHANGED <<ReportedMiners, ShareBlcks>>
  BY <1>0 DEF ReportedMiners, ShareBlcks
<1>3. InBlock' <=> InBlock
  BY <1>0 DEF InBlock
<1> QED
  BY <1>0, <1>1, <1>2, <1>3, SameRound

LEMMA MineRounds ==
  ASSUME TypeOK, HandOverInv, NEW m \in Miners, Mine(m)
  PROVE  [Rounds!RoundNext]_Rounds!rvars
<1>1. CASE WaitTarget(m)
  BY <1>1, WaitTargetWorks DEF Rounds!RoundNext
<1>2. CASE Hash(m)
  BY <1>2, HashFinds DEF Rounds!RoundNext
<1>3. CASE SetBlockSummary(m)
  BY <1>3, SetBlockSummaryLeaves DEF Rounds!RoundNext
<1>4. CASE MineLoop(m) \/ MineRested(m) \/ DoneTarget(m)
  BY <1>4, QuietMineSameRound
<1> QED
  BY <1>1, <1>2, <1>3, <1>4 DEF Mine

-----------------------------------------------------------------------------
\* Rounds are separated, for every number of threads and at any speed: the
\* threads of a pool implement BlockRounds.
THEOREM RoundsRefined == Spec => RoundsImplemented
<1>1. Init => Rounds!RoundInit
  <2> SUFFICES ASSUME Init PROVE Rounds!RoundInit
    OBVIOUS
  <2>1. /\ cpc = "top" /\ running = TRUE /\ solutions = << >>
        /\ Len(<< >>) = 0 /\ target.blck = NoBlck
        /\ \A m \in Miners : mpc[m] = "wait" /\ computed[m] = 0
    BY DEF Init, NoTarget
  <2>2. InBlock = FALSE /\ (~running) = FALSE
    BY <2>1 DEF InBlock
  <2>3. WorkingMiners = {} /\ ReportedMiners = {} /\ ShareBlcks = {}
    BY <2>1 DEF WorkingMiners, ReportedMiners, ShareBlcks, Mining
  <2> QED
    BY <2>1, <2>2, <2>3 DEF Rounds!RoundInit
<1>2. TypeOK /\ HandOverInv /\ [Next]_vars => [Rounds!RoundNext]_Rounds!rvars
  <2> SUFFICES ASSUME TypeOK, HandOverInv, [Next]_vars
               PROVE  [Rounds!RoundNext]_Rounds!rvars
    OBVIOUS
  <2>1. CASE Communicate
    BY <2>1, CommunicateRounds
  <2>2. CASE \E m \in Miners : Mine(m)
    BY <2>2, MineRounds
  <2>3. CASE Stop
    <3>1. /\ running /\ ~running'
          /\ UNCHANGED <<mpc, computed, cpc, obj, target, solution, solutions>>
      BY <2>3 DEF Stop, localVars, minerVars
    <3>2. UNCHANGED <<WorkingMiners, ReportedMiners, ShareBlcks>>
      BY <3>1 DEF WorkingMiners, ReportedMiners, ShareBlcks, Mining
    <3>3. InBlock' = InBlock /\ ~(~running) /\ (~running)' = TRUE
      BY <3>1 DEF InBlock
    <3>4. Rounds!Halt
      BY <3>1, <3>2, <3>3 DEF Rounds!Halt
    <3> QED
      BY <3>4 DEF Rounds!RoundNext
  <2>4. CASE Tick \/ PoolNewBlock \/ UNCHANGED vars
    <3>1. UNCHANGED <<mpc, computed, cpc, obj, target, solution, solutions,
                      running>>
      BY <2>4 DEF Tick, PoolNewBlock, vars, localVars, minerVars
    <3>2. UNCHANGED <<WorkingMiners, ReportedMiners, ShareBlcks>>
      BY <3>1 DEF WorkingMiners, ReportedMiners, ShareBlcks, Mining
    <3>3. InBlock' <=> InBlock
      BY <3>1 DEF InBlock
    <3> QED
      BY <3>1, <3>2, <3>3, SameRound
  <2> QED
    BY <2>1, <2>2, <2>3, <2>4 DEF Next, Ended
<1> QED
  BY <1>1, <1>2, TypeCorrect, HandOver, PTL
  DEF Spec, RoundsImplemented, Rounds!RoundSpec
=============================================================================
