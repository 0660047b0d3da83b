------------------------- MODULE BlockTotals_proofs -------------------------
(***************************************************************************)
(* What holds of a block as a whole, for every number of threads: the hashes *)
(* reported for it are those of its threads, its shares are different ones to *)
(* the pool, and, if the threads keep up with the clock (Prompt), no target is *)
(* erased before it is mined and no share is sent beyond the limits.       *)
(***************************************************************************)
EXTENDS BlockMining_proofs, BlockBases, NosoHash_proofs,
        FiniteSetTheorems, WellFoundedInduction

-----------------------------------------------------------------------------
(* Sums over finite sets: the fold of the community modules takes the      *)
(* elements in an order it chooses; a sum does not depend on it.           *)

SumOver(c, S) == FoldFunctionOnSet(+, 0, c, S)

\* The element a fold takes first, and the sums of the subsets it goes through.
Chosen(s) == CHOOSE x \in s : TRUE

IsSums(g, c, S) ==
  g = [s \in SUBSET S |-> IF s = {} THEN 0 ELSE c[Chosen(s)] + g[s \ {Chosen(s)}]]

\* What holds of a set when it holds of all its strict subsets holds of all.
LEMMA SubsetInduction ==
  ASSUME NEW S, IsFiniteSet(S), NEW Good \in SUBSET (SUBSET S),
         \A T \in SUBSET S :
           (\A U \in SUBSET T : U # T => U \in Good) => T \in Good
  PROVE  S \in Good
<1> SUFFICES ASSUME S \notin Good PROVE FALSE
  OBVIOUS
<1> DEFINE Bad == (SUBSET S) \ Good
<1>1. IsWellFoundedOn(StrictSubsetOrdering(S), SUBSET S)
  <2>1. FiniteSubsetsOf(S) = SUBSET S
    BY FS_FiniteSubsetsOfFinite
  <2>2. IsWellFoundedOn(StrictSubsetOrdering(S), FiniteSubsetsOf(S))
    BY FS_StrictSubsetOrderingWellFounded
  <2> QED  BY <2>1, <2>2
<1>2. PICK T \in Bad : \A U \in Bad : ~(<<U, T>> \in StrictSubsetOrdering(S))
  <2>1. Bad \subseteq SUBSET S /\ Bad # {}
    OBVIOUS
  <2> HIDE DEF Bad
  <2> QED  BY <1>1, <2>1, WFMin
<1>3. ASSUME NEW U \in SUBSET T, U # T PROVE U \in Good
  <2>1. U \in SUBSET S /\ <<U, T>> \in StrictSubsetOrdering(S)
    BY <1>2, <1>3 DEF StrictSubsetOrdering
  <2> QED  BY <1>2, <2>1
<1> QED  BY <1>2, <1>3

LEMMA ChosenIn ==
  ASSUME NEW s, s # {}
  PROVE  /\ Chosen(s) \in s
         /\ s \ {Chosen(s)} \in SUBSET s /\ s \ {Chosen(s)} # s
BY DEF Chosen

\* The sums of the subsets of S are determined by the values on S.
LEMMA SumsUnique ==
  ASSUME NEW S, IsFiniteSet(S), NEW A, NEW B, S \subseteq A, S \subseteq B,
         NEW c, NEW d, \A x \in S : c[x] = d[x],
         NEW g, NEW h, IsSums(g, c, A), IsSums(h, d, B)
  PROVE  g[S] = h[S]
<1> DEFINE Good == {T \in SUBSET S : g[T] = h[T]}
<1>1. ASSUME NEW T \in SUBSET S, \A U \in SUBSET T : U # T => U \in Good
      PROVE  T \in Good
  <2>0. T \in SUBSET A /\ T \in SUBSET B
    OBVIOUS
  <2>1. CASE T = {}
    <3>1. g[T] = 0 /\ h[T] = 0
      BY <2>0, <2>1 DEF IsSums
    <3> QED  BY <3>1
  <2>2. CASE T # {}
    <3> DEFINE x == Chosen(T)
               U == T \ {x}
    <3>1. x \in T /\ U \in SUBSET T /\ U # T
      BY <2>2, ChosenIn
    <3>2. g[U] = h[U]
      BY <1>1, <3>1
    <3>3. g[T] = c[x] + g[U] /\ h[T] = d[x] + h[U]
      BY <2>0, <2>2 DEF IsSums
    <3> QED  BY <3>1, <3>2, <3>3
  <2> QED  BY <2>1, <2>2
<1>2. Good \in SUBSET (SUBSET S)
  OBVIOUS
<1>3. S \in Good
  <2> HIDE DEF Good
  <2> QED  BY <1>1, <1>2, SubsetInduction
<1> QED  BY <1>3

LEMMA SumsExist ==
  ASSUME NEW S, IsFiniteSet(S), NEW c
  PROVE  \E g : IsSums(g, c, S)
<1> DEFINE Good == {T \in SUBSET S : \E g : IsSums(g, c, T)}
<1>1. ASSUME NEW T \in SUBSET S, \A U \in SUBSET T : U # T => U \in Good
      PROVE  T \in Good
  <2> DEFINE H(U) == CHOOSE h : IsSums(h, c, U)
             Rest(s) == s \ {Chosen(s)}
             G == [s \in SUBSET T |->
                     IF s = {} THEN 0 ELSE c[Chosen(s)] + H(Rest(s))[Rest(s)]]
  <2>1. ASSUME NEW U \in SUBSET T, U # T PROVE IsSums(H(U), c, U)
    <3>1. \E h : IsSums(h, c, U)
      BY <1>1, <2>1
    <3> QED  BY <3>1, Zenon
  <2>2. ASSUME NEW U \in SUBSET T, U # T PROVE G[U] = H(U)[U]
    <3>1. IsSums(H(U), c, U)
      BY <2>1, <2>2
    <3>2. CASE U = {}
      <4>1. H(U)[U] = 0
        BY <3>1, <3>2 DEF IsSums
      <4> QED  BY <3>2, <4>1
    <3>3. CASE U # {}
      <4>1. /\ Rest(U) \in SUBSET U /\ Rest(U) # U /\ IsFiniteSet(Rest(U))
        BY <3>3, ChosenIn, FS_Subset
      <4>2. Rest(U) \in SUBSET T /\ Rest(U) # T
        BY <2>2, <4>1
      <4>3. IsSums(H(Rest(U)), c, Rest(U))
        BY <2>1, <4>2
      <4>4. H(U)[U] = c[Chosen(U)] + H(U)[Rest(U)]
        BY <3>1, <3>3 DEF IsSums
      <4>5. H(U)[Rest(U)] = H(Rest(U))[Rest(U)]
        <5> HIDE DEF H, Rest
        <5> QED  BY <3>1, <4>1, <4>3, SumsUnique
      <4>6. G[U] = c[Chosen(U)] + H(Rest(U))[Rest(U)]
        BY <2>2, <3>3
      <4> QED  BY <4>4, <4>5, <4>6
    <3> QED  BY <3>2, <3>3
  <2>3. ASSUME NEW s \in SUBSET T, s # {} PROVE H(Rest(s))[Rest(s)] = G[Rest(s)]
    <3>1. Rest(s) \in SUBSET T /\ Rest(s) # T
      BY <2>3, ChosenIn
    <3> HIDE DEF G, H, Rest
    <3> QED  BY <2>2, <3>1
  <2>4. G = [s \in SUBSET T |-> IF s = {} THEN 0 ELSE c[Chosen(s)] + G[Rest(s)]]
    <3> DEFINE V(s) == IF s = {} THEN 0 ELSE c[Chosen(s)] + H(Rest(s))[Rest(s)]
               W(s) == IF s = {} THEN 0 ELSE c[Chosen(s)] + G[Rest(s)]
    <3>1. \A s \in SUBSET T : V(s) = W(s)
      <4> HIDE DEF G, H, Rest
      <4> QED BY <2>3
    <3>2. G = [s \in SUBSET T |-> V(s)]
      OBVIOUS
    <3>3. [s \in SUBSET T |-> V(s)] = [s \in SUBSET T |-> W(s)]
      <4> HIDE DEF V, W
      <4> QED  BY <3>1
    <3> QED
      <4> HIDE DEF G, H, Rest
      <4> QED BY <3>2, <3>3
  <2>5. IsSums(G, c, T)
    BY <2>4 DEF IsSums
  <2> QED  BY <2>5, Zenon
<1>2. Good \in SUBSET (SUBSET S)
  OBVIOUS
<1>3. S \in Good
  <2> HIDE DEF Good
  <2> QED  BY <1>1, <1>2, SubsetInduction
<1> QED  BY <1>3

LEMMA SumIsSums ==
  ASSUME NEW S, IsFiniteSet(S), NEW c
  PROVE  \E g : IsSums(g, c, S) /\ SumOver(c, S) = g[S]
<1> DEFINE g == CHOOSE h : IsSums(h, c, S)
<1>1. IsSums(g, c, S)
  BY SumsExist, Zenon
<1>2. SumOver(c, S) = g[S]
  BY DEF SumOver, FoldFunctionOnSet, MapThenFoldSet, IsSums, Chosen
<1> QED  BY <1>1, <1>2

\* Two functions that agree on S have the same sum.
LEMMA SumSame ==
  ASSUME NEW S, IsFiniteSet(S), NEW c, NEW d, \A x \in S : c[x] = d[x]
  PROVE  SumOver(c, S) = SumOver(d, S)
<1>1. PICK g : IsSums(g, c, S) /\ SumOver(c, S) = g[S]
  BY SumIsSums
<1>2. PICK h : IsSums(h, d, S) /\ SumOver(d, S) = h[S]
  BY SumIsSums
<1> QED  BY <1>1, <1>2, SumsUnique

LEMMA SumEmpty == ASSUME NEW c PROVE SumOver(c, {}) = 0
BY DEF SumOver, FoldFunctionOnSet, MapThenFoldSet

LEMMA SumChosen ==
  ASSUME NEW S, IsFiniteSet(S), S # {}, NEW c
  PROVE  SumOver(c, S) = c[Chosen(S)] + SumOver(c, S \ {Chosen(S)})
<1> DEFINE R == S \ {Chosen(S)}
<1>0. R \in SUBSET S /\ IsFiniteSet(R)
  BY FS_Subset
<1>1. PICK g : IsSums(g, c, S) /\ SumOver(c, S) = g[S]
  BY SumIsSums
<1>2. PICK h : IsSums(h, c, R) /\ SumOver(c, R) = h[R]
  BY <1>0, SumIsSums
<1>3. g[R] = h[R]
  <2> HIDE DEF R
  <2> QED  BY <1>0, <1>1, <1>2, SumsUnique
<1>4. g[S] = c[Chosen(S)] + g[R]
  BY <1>1 DEF IsSums
<1> QED  BY <1>1, <1>2, <1>3, <1>4

LEMMA SumNat ==
  ASSUME NEW S, IsFiniteSet(S), NEW c, \A x \in S : c[x] \in Nat
  PROVE  SumOver(c, S) \in Nat
<1> DEFINE Good == {T \in SUBSET S : SumOver(c, T) \in Nat}
<1>1. ASSUME NEW T \in SUBSET S, \A U \in SUBSET T : U # T => U \in Good
      PROVE  T \in Good
  <2>1. CASE T = {}
    BY <2>1, SumEmpty
  <2>2. CASE T # {}
    <3>1. IsFiniteSet(T)
      BY FS_Subset
    <3>2. /\ Chosen(T) \in S
          /\ SumOver(c, T) = c[Chosen(T)] + SumOver(c, T \ {Chosen(T)})
          /\ SumOver(c, T \ {Chosen(T)}) \in Nat
      BY <1>1, <2>2, <3>1, ChosenIn, SumChosen
    <3> QED  BY <3>2
  <2> QED  BY <2>1, <2>2
<1>2. Good \in SUBSET (SUBSET S)
  OBVIOUS
<1>3. S \in Good
  <2> HIDE DEF Good
  <2> QED  BY <1>1, <1>2, SubsetInduction
<1> QED  BY <1>3

\* Any element may be taken first.
LEMMA SumTake ==
  ASSUME NEW S, IsFiniteSet(S), NEW c, \A x \in S : c[x] \in Nat, NEW z \in S
  PROVE  SumOver(c, S) = c[z] + SumOver(c, S \ {z})
<1> DEFINE Good == {T \in SUBSET S :
                      \A x \in T : SumOver(c, T) = c[x] + SumOver(c, T \ {x})}
<1>1. ASSUME NEW T \in SUBSET S, \A U \in SUBSET T : U # T => U \in Good
      PROVE  T \in Good
  <2> SUFFICES ASSUME NEW x \in T
               PROVE  SumOver(c, T) = c[x] + SumOver(c, T \ {x})
    OBVIOUS
  <2> DEFINE y == Chosen(T)
  <2>1. /\ y \in T /\ IsFiniteSet(T)
        /\ SumOver(c, T) = c[y] + SumOver(c, T \ {y})
    BY ChosenIn, SumChosen, FS_Subset
  <2> HIDE DEF y
  <2>2. CASE x = y
    BY <2>1, <2>2
  <2>3. CASE x # y
    <3> DEFINE R == (T \ {x}) \ {y}
    <3>1. T \ {y} \in Good /\ T \ {x} \in Good
      <4> HIDE DEF Good
      <4>1. /\ T \ {x} \in SUBSET T /\ T \ {x} # T
            /\ T \ {y} \in SUBSET T /\ T \ {y} # T
        BY <2>1
      <4> QED  BY <1>1, <4>1
    <3>2. SumOver(c, T \ {y}) = c[x] + SumOver(c, (T \ {y}) \ {x})
      BY <2>3, <3>1
    <3>3. SumOver(c, T \ {x}) = c[y] + SumOver(c, R)
      BY <2>1, <2>3, <3>1
    <3>4. (T \ {y}) \ {x} = R
      OBVIOUS
    <3>5. SumOver(c, R) \in Nat
      <4>1. R \in SUBSET T /\ \A u \in R : c[u] \in Nat
        OBVIOUS
      <4>2. IsFiniteSet(R)
        BY <2>1, <4>1, FS_Subset
      <4> HIDE DEF R
      <4> QED  BY <4>1, <4>2, SumNat
    <3>6. c[x] \in Nat /\ c[y] \in Nat
      BY <2>1
    <3>7. SumOver(c, T) = c[y] + (c[x] + SumOver(c, R))
      BY <2>1, <3>2, <3>4
    <3> HIDE DEF R
    <3> QED  BY <3>3, <3>5, <3>6, <3>7
  <2> QED  BY <2>2, <2>3
<1>2. Good \in SUBSET (SUBSET S)
  OBVIOUS
<1>3. S \in Good
  <2> HIDE DEF Good
  <2> QED  BY <1>1, <1>2, SubsetInduction
<1> QED  BY <1>3

-----------------------------------------------------------------------------
(* The clock, for any length of a block.                                   *)

\* The remainder of a division is unique.
LEMMA RemainderUnique ==
  ASSUME NEW p \in Nat, p > 0, NEW a \in Int, NEW b \in Int,
         NEW r \in 0 .. p - 1, NEW s \in 0 .. p - 1, p * a + r = p * b + s
  PROVE  r = s
<1>1. \A k \in Int : k > 0 => p * k >= p
  OBVIOUS
<1>2. p * (a - b) = s - r /\ p * (b - a) = r - s
  OBVIOUS
<1> QED  BY <1>1, <1>2

\* A second later the block is a second older, or a new one begins.
LEMMA AgeGrows ==
  ASSUME NEW t \in Nat
  PROVE  /\ Age(t) \in 0 .. Period - 1
         /\ Age(t + 1) = IF Age(t) = Period - 1 THEN 0 ELSE Age(t) + 1
<1>1. /\ t = Period * (t \div Period) + Age(t) /\ Age(t) \in 0 .. Period - 1
      /\ t \div Period \in Int
  BY ClockAssumption DEF Age
<1>2. /\ t + 1 = Period * ((t + 1) \div Period) + Age(t + 1)
      /\ Age(t + 1) \in 0 .. Period - 1 /\ (t + 1) \div Period \in Int
  BY ClockAssumption DEF Age
<1>5. Period \in Nat /\ Period > 0
  BY ClockAssumption
<1>3. CASE Age(t) = Period - 1
  <2>1. Period * (t \div Period + 1) + 0 = Period * ((t + 1) \div Period) + Age(t + 1)
    BY <1>1, <1>2, <1>3, ClockAssumption
  <2>2. Age(t + 1) = 0
    BY <1>1, <1>2, <2>1, RemainderUnique, ClockAssumption
  <2> QED  BY <1>1, <1>3, <2>2
<1>4. CASE Age(t) # Period - 1
  <2>1. Period * (t \div Period) + (Age(t) + 1)
          = Period * ((t + 1) \div Period) + Age(t + 1)
    BY <1>1, <1>2, ClockAssumption
  <2>2. Age(t) + 1 \in 0 .. Period - 1
    BY <1>1, <1>4, ClockAssumption
  <2>3. Age(t + 1) = Age(t) + 1
    BY <1>1, <1>2, <2>1, <2>2, <1>5, RemainderUnique, Zenon
  <2> QED  BY <1>1, <1>4, <2>3
<1> QED  BY <1>3, <1>4

\* The instants that end the timed waits do not move while the wait lasts, and
\* are later than the last second of what is waited for to end.
LEMMA Deadlines ==
  ASSUME NEW t \in Nat
  PROVE  /\ Outer(t) <=> ~Inner(t)
         /\ Outer(t) /\ Outer(t + 1) => UntilInner(t + 1) = UntilInner(t)
         /\ Inner(t) /\ Inner(t + 1) => UntilOuter(t + 1) = UntilOuter(t)
         /\ Outer(t) => t < UntilInner(t)
         /\ Inner(t) => t < UntilOuter(t)
<1> DEFINE a == Age(t)
<1>1. /\ a \in 0 .. Period - 1
      /\ Age(t + 1) = IF a = Period - 1 THEN 0 ELSE a + 1
  BY AgeGrows
<1>2. /\ Outer(t) <=> a < First \/ a > Last
      /\ Inner(t) <=> First <= a /\ a <= Last
      /\ UntilInner(t) = t + (IF a > Last THEN Period - a + First ELSE First - a) + 1
      /\ UntilOuter(t) = t + (Last - a) + 1
  BY <1>1, ClockAssumption
  DEF Outer, Inner, Before, Behind, UntilInner, UntilOuter
<1> DEFINE b == Age(t + 1)
<1>3. /\ Outer(t + 1) <=> b < First \/ b > Last
      /\ Inner(t + 1) <=> First <= b /\ b <= Last
      /\ UntilInner(t + 1)
            = t + 1 + (IF b > Last THEN Period - b + First ELSE First - b) + 1
      /\ UntilOuter(t + 1) = t + 1 + (Last - b) + 1
  BY <1>1, ClockAssumption
  DEF Outer, Inner, Before, Behind, UntilInner, UntilOuter
<1> HIDE DEF a, b
<1>4. b = IF a = Period - 1 THEN 0 ELSE a + 1
  BY <1>1 DEF b
<1> QED  BY <1>1, <1>2, <1>3, <1>4, ClockAssumption

-----------------------------------------------------------------------------
(* With Prompt: a target that is handed over is not erased.  While the age *)
(* of the block is inner no thread gives a target up, and the clock does   *)
(* not get there before those have finished that did.                      *)

Finished(m) == mpc[m] = "done"

\* A comm thread that was banned mines no other block.
NotBanned ==
  cpc \in {"top", "await inner", "get", "await outer", "hand", "loop", "submit",
           "rest"} => ~banned

\* No thread gives its target up while the age is inner.
NoneLeavesInner ==
  running /\ ~banned /\ Inner(now) =>
    \A m \in Miners : mpc[m] \notin {"summary", "done"}

\* A thread that has not finished when the comm thread begins to wait for the
\* inner period has when it begins.
FinishedBefore ==
  /\ running /\ cpc = "await inner" /\ (\E m \in Miners : Finished(m)) =>
       Outer(now) /\ cDeadline = UntilInner(now)
  /\ running /\ cpc = "get" => \A m \in Miners : ~Finished(m)

InTimeInv == NotBanned /\ NoneLeavesInner /\ FinishedBefore /\ TargetNotErased

LEMMA InitInTime == Init => InTimeInv
BY DEF Init, InTimeInv, NotBanned, NoneLeavesInner, FinishedBefore, Finished,
       TargetNotErased

\* A step of thread m: what it reaches, and from where.
LEMMA MineReaches ==
  ASSUME TypeOK, NEW m \in Miners, Mine(m)
  PROVE  /\ UNCHANGED <<now, running, banned, cpc, obj, cDeadline>>
         /\ \A k \in Miners \ {m} : mpc'[k] = mpc[k]
         /\ mpc'[m] = "done" => mpc[m] = "summary"
         /\ mpc'[m] = "summary" => mpc[m] = "mine" /\ (~(running /\ Inner(now)) \/ banned)
<1>t. mpc \in [Miners -> MinePcs]
  BY DEF TypeOK, MinerTypeOK
<1> USE <1>t DEF commVars, clockVars, countVars, localVars
<1>1. CASE WaitTarget(m)
  BY <1>1 DEF WaitTarget
<1>2. CASE MineLoop(m)
  BY <1>2 DEF MineLoop
<1>3. CASE Hash(m)
  BY <1>3 DEF Hash
<1>4. CASE MineRested(m)
  BY <1>4 DEF MineRested
<1>5. CASE SetBlockSummary(m)
  BY <1>5 DEF SetBlockSummary
<1>6. CASE DoneTarget(m)
  BY <1>6 DEF DoneTarget
<1> QED  BY <1>1, <1>2, <1>3, <1>4, <1>5, <1>6 DEF Mine

LEMMA MineKeepsInTime ==
  ASSUME TypeOK, HandOverInv, InTimeInv, NEW m \in Miners, Mine(m)
  PROVE  InTimeInv'
<1>i. NotBanned /\ NoneLeavesInner /\ FinishedBefore /\ TargetNotErased
  BY DEF InTimeInv
<1>s. /\ UNCHANGED <<now, running, banned, cpc, obj, cDeadline>>
      /\ \A k \in Miners \ {m} : mpc'[k] = mpc[k]
      /\ mpc'[m] = "done" => mpc[m] = "summary"
      /\ mpc'[m] = "summary" => mpc[m] = "mine" /\ (~(running /\ Inner(now)) \/ banned)
  BY MineReaches
<1>1. NotBanned'
  BY <1>i, <1>s DEF NotBanned
<1>2. NoneLeavesInner'
  BY <1>i, <1>s DEF NoneLeavesInner, Inner
\* Where it matters the thread is free: it has no target to finish with.
<1>3. \/ running /\ cpc \in {"await inner", "get"}
      \/ cpc = "hand" /\ m >= obj
      => mpc'[m] # "done"
  BY <1>s DEF HandOverInv, HandsToFree, AllFreeBetween, InBlock, Free, Mining
<1>4. FinishedBefore'
  BY <1>i, <1>s, <1>3 DEF FinishedBefore, Finished, Outer, Before, Behind, UntilInner
<1>5. TargetNotErased'
  BY <1>i, <1>s, <1>3 DEF TargetNotErased
<1> QED  BY <1>1, <1>2, <1>4, <1>5 DEF InTimeInv

\* A step of the comm thread that begins no wait for the inner period, and hands
\* over no target.
LEMMA QuietStepKeepsInTime ==
  ASSUME InTimeInv, UNCHANGED <<now, running, mpc>>, banned => banned',
         NotBanned', cpc' \notin {"await inner", "hand"},
         cpc' = "get" => cpc = "get"
  PROVE  InTimeInv'
BY DEF InTimeInv, NoneLeavesInner, FinishedBefore, Finished, TargetNotErased, Inner

LEMMA CommunicateKeepsInTime ==
  ASSUME TypeOK, HandOverInv, InTimeInv, Communicate
  PROVE  InTimeInv'
<1>t. /\ now \in Nat /\ obj \in Nat /\ Miners \subseteq Nat
      /\ Outer(now) <=> ~Inner(now)
      /\ Outer(now) => now < UntilInner(now)
      /\ UntilInner(now) \in Int
  BY Deadlines, MinersBounds, ClockTypes DEF TypeOK, ClockTypeOK, LocalTypeOK
<1>i. NotBanned /\ NoneLeavesInner /\ FinishedBefore /\ TargetNotErased
  BY DEF InTimeInv
<1>1. CASE Top
  <2>1. /\ UNCHANGED <<now, running, banned, mpc>> /\ cpc = "top" /\ ~banned
        /\ cpc' = IF ~running THEN "join"
                  ELSE IF Outer(now) THEN "await inner" ELSE "get"
        /\ cDeadline' = IF cpc' = "await inner" THEN UntilInner(now) ELSE cDeadline
    BY <1>1, <1>i DEF Top, NotBanned, MustAwaitInner, clockVars, countVars, minerVars
  <2>2. NotBanned' /\ NoneLeavesInner' /\ TargetNotErased'
    BY <1>i, <2>1 DEF NotBanned, NoneLeavesInner, TargetNotErased, Inner
  <2>3. FinishedBefore'
    BY <1>t, <1>i, <2>1
    DEF FinishedBefore, Finished, NoneLeavesInner, Outer, Before, Behind, UntilInner
  <2> QED  BY <2>2, <2>3 DEF InTimeInv
<1>2. CASE AwaitedInner
  <2>1. /\ UNCHANGED <<now, running, banned, mpc>> /\ cpc = "await inner" /\ ~banned
        /\ cpc' = IF running THEN "get" ELSE "join"
        /\ ~running \/ Inner(now) \/ now >= cDeadline
    BY <1>2, <1>i
    DEF AwaitedInner, InnerOrOver, NotBanned, clockVars, countVars, minerVars
  <2>2. NotBanned' /\ NoneLeavesInner' /\ TargetNotErased'
    BY <1>i, <2>1 DEF NotBanned, NoneLeavesInner, TargetNotErased, Inner
  <2>3. running => \A m \in Miners : ~Finished(m)
    <3>1. running /\ (\E m \in Miners : Finished(m))
            => Outer(now) /\ cDeadline = UntilInner(now)
      BY <1>i, <2>1 DEF FinishedBefore
    <3>2. Outer(now) /\ cDeadline = UntilInner(now) => ~(now >= cDeadline)
      BY <1>t, SMT
    <3> QED  BY <1>t, <2>1, <3>1, <3>2, Zenon
  <2>4. FinishedBefore'
    BY <2>1, <2>3 DEF FinishedBefore, Finished
  <2> QED  BY <2>2, <2>4 DEF InTimeInv
<1>3. CASE TargetAnswered
  <2>1. /\ UNCHANGED <<now, running, banned, mpc>> /\ cpc = "get" /\ ~banned
        /\ cpc' \in {"get", "join"} \/ (cpc' = "hand" /\ running)
    <3>1. cpc' = "get" \/ \E t : GotTarget(t)
      BY <1>3 DEF TargetAnswered
    <3> QED  BY <1>3, <3>1, <1>i
             DEF TargetAnswered, GotTarget, NotBanned, clockVars, countVars, minerVars
  <2>2. NotBanned' /\ NoneLeavesInner'
    BY <1>i, <2>1 DEF NotBanned, NoneLeavesInner, Inner
  <2>3. FinishedBefore' /\ TargetNotErased'
    BY <1>i, <2>1 DEF FinishedBefore, Finished, TargetNotErased
  <2> QED  BY <2>2, <2>3 DEF InTimeInv
<1>4. CASE NewTarget
  <2>1. UNCHANGED <<now, running, banned, mpc, cpc>> /\ cpc = "hand" /\ obj' = obj + 1
    BY <1>4 DEF NewTarget, clockVars, countVars
  <2>2. NotBanned' /\ NoneLeavesInner' /\ FinishedBefore'
    BY <1>i, <2>1 DEF NotBanned, NoneLeavesInner, FinishedBefore, Inner
  <2>3. TargetNotErased'
    BY <1>t, <1>i, <2>1 DEF TargetNotErased
  <2> QED  BY <2>2, <2>3 DEF InTimeInv
<1> USE DEF clockVars, countVars, minerVars
<1>5. CASE TargetNotAnswered \/ AwaitedOuter \/ SetMaxShares
  <2>1. NotBanned'
    BY <1>5, <1>i DEF TargetNotAnswered, AwaitedOuter, SetMaxShares, NotBanned
  <2>2. UNCHANGED <<now, running, mpc>>
    BY <1>5 DEF TargetNotAnswered, AwaitedOuter, SetMaxShares
  <2>3. banned => banned'
    BY <1>5 DEF TargetNotAnswered, AwaitedOuter, SetMaxShares
  <2>4. cpc' \notin {"await inner", "hand"} /\ (cpc' = "get" => cpc = "get")
    BY <1>5 DEF TargetNotAnswered, AwaitedOuter, SetMaxShares
  <2> QED  BY <2>1, <2>2, <2>3, <2>4, QuietStepKeepsInTime
<1>6. CASE GetSolution \/ LeaveLoop \/ Rested
  <2>1. NotBanned'
    BY <1>6, <1>i DEF GetSolution, LeaveLoop, Rested, NotBanned
  <2>2. UNCHANGED <<now, running, mpc>>
    BY <1>6 DEF GetSolution, LeaveLoop, Rested
  <2>3. banned => banned'
    BY <1>6 DEF GetSolution, LeaveLoop, Rested
  <2>4. cpc' \notin {"await inner", "hand"} /\ (cpc' = "get" => cpc = "get")
    BY <1>6 DEF GetSolution, LeaveLoop, Rested
  <2> QED  BY <2>1, <2>2, <2>3, <2>4, QuietStepKeepsInTime
<1>7. CASE ShareAccepted \/ ShareRejected \/ ShareFailed \/ CheckShares
  <2>1. NotBanned'
    BY <1>7, <1>i
    DEF ShareAccepted, ShareRejected, ShareFailed, CheckShares, NotBanned
  <2>2. UNCHANGED <<now, running, mpc>>
    BY <1>7 DEF ShareAccepted, ShareRejected, ShareFailed, CheckShares
  <2>3. banned => banned'
    BY <1>7 DEF ShareAccepted, ShareRejected, ShareFailed, CheckShares
  <2>4. cpc' \notin {"await inner", "hand"} /\ (cpc' = "get" => cpc = "get")
    BY <1>7 DEF ShareAccepted, ShareRejected, ShareFailed, CheckShares
  <2> QED  BY <2>1, <2>2, <2>3, <2>4, QuietStepKeepsInTime
<1>8. CASE GetBlockSummary \/ ResetMiningBlock \/ JoinMineThreads
  <2>1. NotBanned'
    BY <1>8 DEF GetBlockSummary, ResetMiningBlock, JoinMineThreads, NotBanned
  <2>2. UNCHANGED <<now, running, mpc>>
    BY <1>8 DEF GetBlockSummary, ResetMiningBlock, JoinMineThreads
  <2>3. banned => banned'
    BY <1>8 DEF GetBlockSummary, ResetMiningBlock, JoinMineThreads
  <2>4. cpc' \notin {"await inner", "hand"} /\ (cpc' = "get" => cpc = "get")
    BY <1>8 DEF GetBlockSummary, ResetMiningBlock, JoinMineThreads
  <2> QED  BY <2>1, <2>2, <2>3, <2>4, QuietStepKeepsInTime
<1> QED
  BY <1>1, <1>2, <1>3, <1>4, <1>5, <1>6, <1>7, <1>8 DEF Communicate

LEMMA TickKeepsInTime ==
  ASSUME Prompt, TypeOK, InTimeInv, Tick
  PROVE  InTimeInv'
<1>i. NotBanned /\ NoneLeavesInner /\ FinishedBefore /\ TargetNotErased
  BY DEF InTimeInv
<1>t. /\ now \in Nat /\ now' = now + 1
      /\ UNCHANGED <<running, banned, cpc, obj, cDeadline, mpc>>
      /\ Outer(now) /\ Inner(now + 1) =>
           \A m \in Miners : mpc[m] \notin {"summary", "done"}
  BY DEF Tick, MineBusy, TypeOK, ClockTypeOK, countVars, localVars, minerVars
<1>c. /\ Outer(now) <=> ~Inner(now)
      /\ Outer(now + 1) <=> ~Inner(now + 1)
      /\ Outer(now) /\ Outer(now + 1) => UntilInner(now + 1) = UntilInner(now)
  <2>1. now + 1 \in Nat
    BY <1>t
  <2> QED  BY <1>t, <2>1, Deadlines
<1>n. /\ Inner(now)' <=> Inner(now + 1)
      /\ Outer(now)' <=> Outer(now + 1)
      /\ UntilInner(now)' = UntilInner(now + 1)
  BY <1>t DEF Inner, Outer, Before, Behind, UntilInner, Age
<1>1. NotBanned' /\ TargetNotErased'
  BY <1>i, <1>t DEF NotBanned, TargetNotErased
<1>2. NoneLeavesInner'
  BY <1>i, <1>t, <1>c, <1>n DEF NoneLeavesInner
<1>3. FinishedBefore'
  BY <1>i, <1>t, <1>c, <1>n DEF FinishedBefore, Finished
<1> QED  BY <1>1, <1>2, <1>3 DEF InTimeInv

\* A target handed over to a mine object is not erased by the DoneTarget of the
\* block before (mining.cpp), if the threads keep up with the clock.
THEOREM TargetsKept ==
  ASSUME Prompt
  PROVE  Spec => []TargetNotErased
<1>1. TypeOK /\ HandOverInv /\ InTimeInv /\ [Next]_vars => InTimeInv'
  <2> SUFFICES ASSUME TypeOK, HandOverInv, InTimeInv, [Next]_vars PROVE InTimeInv'
    OBVIOUS
  <2>1. CASE \E m \in Miners : Mine(m)
    BY <2>1, MineKeepsInTime
  <2>2. CASE Communicate
    BY <2>2, CommunicateKeepsInTime
  <2>3. CASE Tick
    BY <2>3, TickKeepsInTime
  <2>4. CASE Stop \/ PoolNewBlock \/ UNCHANGED vars
    <3>1. /\ UNCHANGED <<now, banned, cpc, obj, cDeadline, mpc>>
          /\ running' => running
      BY <2>4 DEF Stop, PoolNewBlock, vars, clockVars, countVars, localVars, minerVars
    <3> QED
      BY <3>1 DEF InTimeInv, NotBanned, NoneLeavesInner, FinishedBefore, Finished,
                  TargetNotErased, Inner, Outer, Before, Behind, UntilInner
  <2> QED  BY <2>1, <2>2, <2>3, <2>4 DEF Next, Ended
<1>2. InTimeInv => TargetNotErased
  BY DEF InTimeInv
<1> QED  BY <1>1, <1>2, InitInTime, TypeCorrect, HandOver, PTL DEF Spec

-----------------------------------------------------------------------------
(* With Prompt: the shares accepted in a block stay within the limits.  A  *)
(* share is sent only from an iteration that found the limits not reached, *)
(* and the clock does not get back to the inner period while the thread is *)
(* in a loop that has already ended.                                       *)

\* One more share may be accepted.
MayAccept ==
  /\ SharesLimit > 0 => accepted < SharesLimit
  /\ accepted = 0 \/ accepted < target.max

\* What is known where the comm thread is: between two blocks no share is
\* counted, a rest ends with the inner period, a share is sent within limits.
PlaceInv ==
  /\ cpc \in {"top", "await inner", "get", "await outer", "hand"} =>
       accepted = 0 /\ ~reached
  /\ cpc = "rest" /\ running /\ Inner(now) => cDeadline = UntilOuter(now)
  /\ cpc = "submit" => MayAccept
  /\ cpc = "loop" /\ running /\ Inner(now) => MayAccept

\* The flag is set with the share that reaches the limit of the pool.
FlagSet == accepted > 0 => reached \/ accepted < target.max

ShareLimitInv == PlaceInv /\ FlagSet /\ ShareLimit

\* The parts of the state that matter, with their types.
LEMMA LimitTypes ==
  ASSUME TypeOK
  PROVE  /\ accepted \in Nat /\ target.max \in Nat /\ SharesLimit \in Nat
         /\ now \in Nat /\ cDeadline \in Int /\ UntilOuter(now) \in Int
         /\ running \in BOOLEAN /\ reached \in BOOLEAN
BY MiningAssumption, ClockTypes
DEF TypeOK, ClockTypeOK, LocalTypeOK, PoolTypeOK, Targets, NoTarget

LEMMA InitInLimit == TypeOK /\ Init => ShareLimitInv
BY LimitTypes DEF Init, ShareLimitInv, PlaceInv, FlagSet, ShareLimit

\* A step that leaves the count and the target alone.
LEMMA QuietStepKeepsLimit ==
  ASSUME ShareLimitInv, PlaceInv', UNCHANGED <<accepted, target>>,
         reached' \in {reached, TRUE}
  PROVE  ShareLimitInv'
BY DEF ShareLimitInv, FlagSet, ShareLimit

\* The clock in a step that is not a tick.
LEMMA ClockKept ==
  ASSUME now' = now
  PROVE  ((Inner(now))' <=> Inner(now)) /\ UntilOuter(now)' = UntilOuter(now)
BY DEF Inner, UntilOuter, Age

LEMMA CommunicateKeepsLimit ==
  ASSUME TypeOK, TypeOK', ShareLimitInv, Communicate
  PROVE  ShareLimitInv'
<1> USE DEF clockVars, localVars, countVars, poolVars
<1>i. PlaceInv /\ FlagSet /\ ShareLimit
  BY DEF ShareLimitInv
<1>t. /\ now' = now /\ running' = running
      /\ ((Inner(now))' <=> Inner(now))
      /\ UntilOuter(now)' = UntilOuter(now)
  <2>1. now' = now /\ running' = running
    BY DEF Communicate, Top, AwaitedInner, TargetAnswered, TargetNotAnswered,
           AwaitedOuter, NewTarget, SetMaxShares, GetSolution, LeaveLoop,
           ShareAccepted, ShareRejected, ShareFailed, CheckShares, Rested,
           GetBlockSummary, ResetMiningBlock, JoinMineThreads
  <2> QED  BY <2>1, ClockKept
<1>p. target'.max \in Nat /\ accepted' \in Nat
  BY MiningAssumption DEF TypeOK, LocalTypeOK, PoolTypeOK, Targets, NoTarget
\* A step to a place of which nothing, or nothing new, is known.
<1>1. CASE Top \/ AwaitedInner \/ TargetNotAnswered \/ AwaitedOuter \/ NewTarget
  <2>1. /\ UNCHANGED <<accepted, reached, target>>
        /\ cpc \in {"top", "await inner", "get", "await outer", "hand"}
        /\ cpc' \notin {"rest", "submit", "loop"}
    BY <1>1 DEF Top, AwaitedInner, TargetNotAnswered, AwaitedOuter, NewTarget
  <2>2. PlaceInv'
    BY <1>i, <2>1 DEF PlaceInv
  <2> QED  BY <2>1, <2>2, QuietStepKeepsLimit
<1>2. CASE LeaveLoop \/ GetBlockSummary \/ JoinMineThreads
        \/ ShareRejected \/ ShareFailed
  <2>1. /\ UNCHANGED <<accepted, target>> /\ reached' \in {reached, TRUE}
        /\ cpc' \in {"close", "ended", "check"}
    BY <1>2
    DEF LeaveLoop, GetBlockSummary, JoinMineThreads, ShareRejected, ShareFailed
  <2>2. PlaceInv'
    BY <2>1 DEF PlaceInv
  <2> QED  BY <2>1, <2>2, QuietStepKeepsLimit
<1>3. CASE TargetAnswered
  <2>1. /\ cpc = "get" /\ UNCHANGED <<accepted, reached>>
        /\ cpc' \notin {"rest", "submit", "loop"}
    <3>1. cpc' = "get" \/ \E t : GotTarget(t)
      BY <1>3 DEF TargetAnswered
    <3> QED  BY <1>3, <3>1 DEF TargetAnswered, GotTarget
  <2>2. accepted = 0 /\ ~reached
    BY <1>i, <2>1 DEF PlaceInv
  <2>3. PlaceInv'
    BY <2>1, <2>2 DEF PlaceInv
  <2>4. FlagSet' /\ ShareLimit'
    BY <1>p, <2>1, <2>2, LimitTypes DEF FlagSet, ShareLimit
  <2> QED  BY <2>3, <2>4 DEF ShareLimitInv
<1>4. CASE SetMaxShares
  <2>1. UNCHANGED <<accepted, reached, target>> /\ cpc = "hand" /\ cpc' = "loop"
    BY <1>4 DEF SetMaxShares
  <2>2. PlaceInv'
    BY <1>i, <2>1, LimitTypes DEF PlaceInv, MayAccept
  <2> QED  BY <2>1, <2>2, QuietStepKeepsLimit
<1>5. CASE GetSolution
  <2>1. /\ UNCHANGED <<accepted, reached, target>>
        /\ cpc = "loop" /\ running /\ Inner(now) /\ cpc' \in {"check", "submit"}
    BY <1>5 DEF GetSolution
  <2>2. PlaceInv'
    BY <1>i, <2>1 DEF PlaceInv, MayAccept
  <2> QED  BY <2>1, <2>2, QuietStepKeepsLimit
<1>6. CASE ShareAccepted
  <2>1. /\ cpc = "submit" /\ cpc' = "check" /\ target' = target
        /\ accepted' = accepted + 1
    BY <1>6 DEF ShareAccepted
  <2>2. MayAccept
    BY <1>i, <2>1 DEF PlaceInv
  <2>3. PlaceInv'
    BY <2>1 DEF PlaceInv
  <2>4. ShareLimit'
    BY <2>1, <2>2, LimitTypes DEF MayAccept, ShareLimit
  <2>5. ~reached' => ~(accepted' >= target.max)
    BY <1>6, Zenon DEF ShareAccepted
  <2>6. FlagSet'
    BY <2>1, <2>5, <1>p, LimitTypes DEF FlagSet
  <2> QED  BY <2>3, <2>4, <2>6 DEF ShareLimitInv
\* The check of the limits, after a share or without one.
<1>7. CASE CheckShares
  <2>1. /\ UNCHANGED <<accepted, reached, target>>
        /\ \/ cpc' = "close"
           \/ cpc' = "rest" /\ cDeadline' = UntilOuter(now)
           \/ cpc' = "loop" /\ ~ReachedMaxShares
    BY <1>7 DEF CheckShares
  <2>2. ~ReachedMaxShares => MayAccept
    BY <1>i, LimitTypes DEF ReachedMaxShares, FlagSet, MayAccept
  <2>3. MayAccept' <=> MayAccept
    BY <2>1 DEF MayAccept
  <2>4. PlaceInv'
    BY <1>t, <2>1, <2>2, <2>3 DEF PlaceInv
  <2> QED  BY <2>1, <2>4, QuietStepKeepsLimit
<1>8. CASE Rested
  <2>1. /\ UNCHANGED <<accepted, reached, target>> /\ cpc = "rest" /\ cpc' = "loop"
        /\ ~running \/ Outer(now) \/ now >= cDeadline
    BY <1>8 DEF Rested, OuterOrOver
  <2>2. ~(running /\ Inner(now))
    <3>1. Inner(now) => ~Outer(now) /\ now < UntilOuter(now)
      BY Deadlines, LimitTypes
    <3>2. Inner(now) /\ cDeadline = UntilOuter(now) => ~(now >= cDeadline)
      BY <3>1, LimitTypes, SMT
    <3> QED  BY <1>i, <2>1, <3>1, <3>2, Zenon DEF PlaceInv
  <2>3. PlaceInv'
    BY <1>t, <2>1, <2>2 DEF PlaceInv
  <2> QED  BY <2>1, <2>3, QuietStepKeepsLimit
<1>9. CASE ResetMiningBlock
  <2>1. accepted' = 0 /\ ~reached' /\ cpc' \in {"join", "top"}
    BY <1>9 DEF ResetMiningBlock
  <2>2. PlaceInv'
    BY <2>1 DEF PlaceInv
  <2>3. FlagSet' /\ ShareLimit'
    BY <1>p, <2>1, LimitTypes DEF FlagSet, ShareLimit
  <2> QED  BY <2>2, <2>3 DEF ShareLimitInv
<1> QED
  BY <1>1, <1>2, <1>3, <1>4, <1>5, <1>6, <1>7, <1>8, <1>9 DEF Communicate

\* The clock gets back to the inner period only when the comm thread is in no
\* loop of shares.
LEMMA TickKeepsLimit ==
  ASSUME Prompt, TypeOK, ShareLimitInv, Tick
  PROVE  ShareLimitInv'
<1>i. PlaceInv
  BY DEF ShareLimitInv
<1>1. /\ now \in Nat /\ now' = now + 1
      /\ UNCHANGED <<running, cpc, cDeadline, accepted, reached, target>>
      /\ Outer(now) /\ Inner(now + 1) => cpc \notin {"loop", "rest"}
  BY LimitTypes DEF Tick, CommBusy, OuterOrOver, localVars, countVars
<1>2. /\ (Inner(now))' <=> Inner(now + 1)
      /\ UntilOuter(now)' = UntilOuter(now + 1)
  BY <1>1 DEF Inner, UntilOuter, Age
<1>3. /\ Outer(now) <=> ~Inner(now)
      /\ Inner(now) /\ Inner(now + 1) => UntilOuter(now + 1) = UntilOuter(now)
  BY <1>1, Deadlines
<1>4. PlaceInv'
  BY <1>i, <1>1, <1>2, <1>3 DEF PlaceInv, MayAccept
<1> QED  BY <1>1, <1>4, QuietStepKeepsLimit

\* No more shares of a block are counted as accepted than --shares allows, nor
\* more than the pool announced (CheckShares, comm.cpp), whatever is found and
\* answered meanwhile, if the threads keep up with the clock.
THEOREM SharesLimited ==
  ASSUME Prompt
  PROVE  Spec => []ShareLimit
<1>1. TypeOK /\ TypeOK' /\ ShareLimitInv /\ [Next]_vars => ShareLimitInv'
  <2> SUFFICES ASSUME TypeOK, TypeOK', ShareLimitInv, [Next]_vars
               PROVE  ShareLimitInv'
    OBVIOUS
  <2>1. CASE Communicate
    BY <2>1, CommunicateKeepsLimit
  <2>2. CASE Tick
    BY <2>2, TickKeepsLimit
  <2>3. CASE (\E m \in Miners : Mine(m)) \/ Stop \/ PoolNewBlock \/ UNCHANGED vars
    <3>1. UNCHANGED <<now, cpc, cDeadline, accepted, reached, target>>
      BY <2>3 DEF Mine, WaitTarget, MineLoop, Hash, MineRested, SetBlockSummary,
                  DoneTarget, Stop, PoolNewBlock, vars, clockVars, commVars,
                  localVars, countVars
    <3>2. running' => running
      BY <2>3 DEF Mine, WaitTarget, MineLoop, Hash, MineRested, SetBlockSummary,
                  DoneTarget, Stop, PoolNewBlock, vars, commVars
    <3>3. /\ (Inner(now))' <=> Inner(now)
          /\ UntilOuter(now)' = UntilOuter(now)
          /\ MayAccept' <=> MayAccept
      BY <3>1, ClockKept DEF MayAccept
    <3>4. PlaceInv'
      BY <3>1, <3>2, <3>3 DEF ShareLimitInv, PlaceInv
    <3> QED  BY <3>1, <3>4, QuietStepKeepsLimit
  <2> QED  BY <2>1, <2>2, <2>3 DEF Next, Ended
<1>2. ShareLimitInv => ShareLimit
  BY DEF ShareLimitInv
<1> QED  BY <1>1, <1>2, InitInLimit, TypeCorrect, PTL DEF Spec

-----------------------------------------------------------------------------
(* The hashes reported for a block are those its threads computed.         *)

\* While a block is closed, m_last_block_hashes_count is the sum of the counts
\* of the threads whose summary was collected ...
CollectedCounted ==
  running /\ cpc = "close" => lastHashes = SumOver(counter, 0 .. obj - 1)

\* ... because a summary that is there is the count of its thread.
SummaryIsCount ==
  \A m \in Miners : computed[m] > 0 => computed[m] = counter[m]

CountInv == CollectedCounted /\ SummaryIsCount

LEMMA InitCounts == Init => CountInv
BY DEF Init, CountInv, CollectedCounted, SummaryIsCount

\* The threads before the next one of the loop, and with it.
LEMMA MinersBefore ==
  ASSUME NEW k \in 0 .. ThreadsCount
  PROVE  /\ 0 .. k - 1 \subseteq Miners /\ IsFiniteSet(0 .. k - 1)
         /\ (0 .. k) \ {k} = 0 .. k - 1
         /\ 0 .. 0 - 1 = {}
<1>1. k \in Int /\ k - 1 \in Int
  OBVIOUS
<1>2. IsFiniteSet(0 .. k - 1)
  BY <1>1, FS_Interval
<1> QED  BY <1>1, <1>2, MiningAssumption DEF Miners

\* A step of thread m: the count of a thread whose summary was collected, and
\* of one whose summary is there, does not change.
LEMMA MineCounts ==
  ASSUME TypeOK, HandOverInv, NEW m \in Miners, Mine(m)
  PROVE  /\ UNCHANGED <<running, cpc, obj, lastHashes>>
         /\ \A k \in Miners \ {m} :
              counter'[k] = counter[k] /\ computed'[k] = computed[k]
         /\ running /\ Free(m) => counter'[m] = counter[m]
         /\ \/ computed'[m] = counter'[m]
            \/ computed'[m] = computed[m] /\ counter'[m] = counter[m]
            \/ computed'[m] = 0
<1>t. /\ counter \in [Miners -> Nat] /\ computed \in [Miners -> Nat]
      /\ MinesTarget /\ WaitsForTarget
  BY DEF TypeOK, MinerTypeOK, HandOverInv
<1> USE <1>t DEF commVars, localVars, poolVars, Free, Mining
<1>1. CASE WaitTarget(m)
  <2>1. ~running \/ blckNo[m] > 0
    BY <1>1 DEF WaitTarget, TargetReady
  <2>2. running => computed[m] = 0
    BY <1>1, <2>1 DEF WaitTarget, WaitsForTarget
  <2> QED  BY <1>1, <2>1, <2>2 DEF WaitTarget
<1>2. CASE MineLoop(m)
  BY <1>2 DEF MineLoop
<1>3. CASE Hash(m)
  BY <1>3 DEF Hash, MinesTarget
<1>4. CASE MineRested(m)
  BY <1>4 DEF MineRested
<1>5. CASE SetBlockSummary(m)
  BY <1>5 DEF SetBlockSummary
<1>6. CASE DoneTarget(m)
  BY <1>6 DEF DoneTarget
<1> QED  BY <1>1, <1>2, <1>3, <1>4, <1>5, <1>6 DEF Mine

LEMMA MineKeepsCounts ==
  ASSUME TypeOK, HandOverInv, CountInv, NEW m \in Miners, Mine(m)
  PROVE  CountInv'
<1>s. /\ UNCHANGED <<running, cpc, obj, lastHashes>>
      /\ \A k \in Miners \ {m} :
           counter'[k] = counter[k] /\ computed'[k] = computed[k]
      /\ running /\ Free(m) => counter'[m] = counter[m]
      /\ \/ computed'[m] = counter'[m]
         \/ computed'[m] = computed[m] /\ counter'[m] = counter[m]
         \/ computed'[m] = 0
  BY MineCounts
<1>1. SummaryIsCount'
  BY <1>s DEF CountInv, SummaryIsCount
<1>2. ASSUME running, cpc = "close" PROVE lastHashes = SumOver(counter', 0 .. obj - 1)
  <2>1. obj \in 0 .. ThreadsCount /\ \A k \in Miners : k < obj => Free(k)
    BY <1>2 DEF TypeOK, LocalTypeOK, HandOverInv, ClosesFree
  <2>2. \A k \in 0 .. obj - 1 : k \in Miners /\ k < obj
    BY <2>1, MinersBefore
  <2>3. \A k \in 0 .. obj - 1 : counter[k] = counter'[k]
    BY <1>s, <1>2, <2>1, <2>2
  <2>4. SumOver(counter, 0 .. obj - 1) = SumOver(counter', 0 .. obj - 1)
    BY <2>1, <2>3, MinersBefore, SumSame
  <2> QED  BY <1>2, <2>4 DEF CountInv, CollectedCounted
<1> QED  BY <1>s, <1>1, <1>2 DEF CountInv, CollectedCounted

LEMMA GetBlockSummaryCounts ==
  ASSUME TypeOK, CountInv, GetBlockSummary
  PROVE  CountInv'
<1>t. /\ obj \in 0 .. ThreadsCount /\ obj < ThreadsCount /\ obj \in Miners
      /\ counter \in [Miners -> Nat] /\ computed \in [Miners -> Nat]
      /\ running \in BOOLEAN
  BY MinersBounds
  DEF TypeOK, ClockTypeOK, LocalTypeOK, MinerTypeOK, GetBlockSummary
<1>1. /\ lastHashes' = lastHashes + computed[obj]
      /\ computed' = [computed EXCEPT ![obj] = 0]
      /\ obj' = obj + 1 /\ cpc = "close"
      /\ ~running \/ computed[obj] > 0
      /\ UNCHANGED <<running, counter>>
  BY DEF GetBlockSummary, SummaryReady, SummaryLeft
<1>2. SummaryIsCount'
  BY <1>t, <1>1 DEF CountInv, SummaryIsCount
<1>3. ASSUME running
      PROVE  lastHashes + computed[obj] = SumOver(counter, 0 .. obj)
  <2>1. lastHashes = SumOver(counter, 0 .. obj - 1) /\ computed[obj] = counter[obj]
    BY <1>t, <1>1, <1>3 DEF CountInv, CollectedCounted, SummaryIsCount
  <2>2. obj + 1 \in 0 .. ThreadsCount /\ (obj + 1) - 1 = obj /\ obj \in 0 .. obj
    BY <1>t, MiningAssumption
  <2>3. 0 .. obj \subseteq Miners /\ IsFiniteSet(0 .. obj)
    BY <2>2, MinersBefore
  <2>4. SumOver(counter, 0 .. obj)
          = counter[obj] + SumOver(counter, (0 .. obj) \ {obj})
    BY <1>t, <2>2, <2>3, SumTake
  <2>5. (0 .. obj) \ {obj} = 0 .. obj - 1
    BY <1>t, MinersBefore
  <2>6. SumOver(counter, 0 .. obj - 1) \in Nat
    BY <1>t, MinersBefore, SumNat
  <2>7. counter[obj] \in Nat
    BY <1>t
  <2>8. SumOver(counter, 0 .. obj) = counter[obj] + lastHashes
    BY <2>1, <2>4, <2>5, Zenon
  <2> QED  BY <2>1, <2>6, <2>7, <2>8
<1>4. (obj + 1) - 1 = obj
  BY <1>t
<1> QED  BY <1>1, <1>2, <1>3, <1>4 DEF CountInv, CollectedCounted

LEMMA CommunicateKeepsCounts ==
  ASSUME TypeOK, CountInv, Communicate
  PROVE  CountInv'
<1>1. CASE GetBlockSummary
  BY <1>1, GetBlockSummaryCounts
<1>2. CASE LeaveLoop \/ CheckShares
  <2>1. /\ UNCHANGED <<counter, computed>>
        /\ cpc' = "close" => obj' = 0 /\ lastHashes' = 0
    BY <1>2 DEF LeaveLoop, CheckShares, minerVars
  <2>2. SumOver(counter', 0 .. 0 - 1) = 0
    BY SumEmpty, MinersBefore, MiningAssumption
  <2> QED  BY <2>1, <2>2 DEF CountInv, CollectedCounted, SummaryIsCount
<1>3. CASE \/ Top \/ AwaitedInner \/ TargetAnswered \/ TargetNotAnswered
           \/ AwaitedOuter \/ NewTarget \/ SetMaxShares \/ GetSolution
           \/ ShareAccepted \/ ShareRejected \/ ShareFailed \/ Rested
           \/ ResetMiningBlock \/ JoinMineThreads
  <2>1. UNCHANGED <<counter, computed>>
    BY <1>3 DEF Top, AwaitedInner, TargetAnswered, TargetNotAnswered,
                AwaitedOuter, NewTarget, SetMaxShares, GetSolution,
                ShareAccepted, ShareRejected, ShareFailed, Rested,
                ResetMiningBlock, JoinMineThreads, minerVars
  <2>2. cpc' # "close"
    BY <1>3 DEF Top, AwaitedInner, TargetAnswered, GotTarget,
                TargetNotAnswered, AwaitedOuter, NewTarget, SetMaxShares,
                GetSolution, ShareAccepted, ShareRejected, ShareFailed, Rested,
                ResetMiningBlock, JoinMineThreads
  <2> QED  BY <2>1, <2>2 DEF CountInv, CollectedCounted, SummaryIsCount
<1> QED  BY <1>1, <1>2, <1>3 DEF Communicate

\* The hashes CloseMiningBlock (comm.cpp) adds up for a block are those its
\* threads computed, each once: for any number of threads.
THEOREM HashesAreCounted == Spec => []HashesCounted
<1>1. TypeOK /\ HandOverInv /\ CountInv /\ [Next]_vars => CountInv'
  <2> SUFFICES ASSUME TypeOK, HandOverInv, CountInv, [Next]_vars PROVE CountInv'
    OBVIOUS
  <2>1. CASE \E m \in Miners : Mine(m)
    BY <2>1, MineKeepsCounts
  <2>2. CASE Communicate
    BY <2>2, CommunicateKeepsCounts
  <2>3. CASE Stop \/ Tick \/ PoolNewBlock \/ UNCHANGED vars
    <3>1. /\ UNCHANGED <<cpc, obj, lastHashes, counter, computed>>
          /\ running' => running
      BY <2>3 DEF Stop, Tick, PoolNewBlock, vars, localVars, poolVars, minerVars
    <3> QED  BY <3>1 DEF CountInv, CollectedCounted, SummaryIsCount
  <2> QED  BY <2>1, <2>2, <2>3 DEF Next, Ended
<1>2. TypeOK /\ CountInv => HashesCounted
  <2> SUFFICES ASSUME TypeOK, CountInv, cpc = "close", obj = ThreadsCount, running
               PROVE  lastHashes = FoldFunction(+, 0, counter)
    BY DEF HashesCounted
  <2>1. lastHashes = SumOver(counter, 0 .. ThreadsCount - 1)
    BY DEF CountInv, CollectedCounted
  <2>2. DOMAIN counter = 0 .. ThreadsCount - 1
    BY DEF TypeOK, MinerTypeOK, Miners
  <2> QED  BY <2>1, <2>2 DEF SumOver, FoldFunction
<1> QED  BY <1>1, <1>2, InitCounts, TypeCorrect, HandOver, PTL DEF Spec

-----------------------------------------------------------------------------
(* The bases of the shares.                                                *)

\* The shares of threads that the prefix tells apart and of steps that the
\* counter of nine digits does.
Told == {s \in Solutions : s.thread \in Miners /\ s.nonce < MaxHashes}

SharesTold ==
  /\ solutions \in Seq(Told)
  /\ cpc = "submit" => solution \in Told
  /\ \A m \in Miners : mpc[m] = "hash" => counter[m] < MaxHashes

LEMMA InitTold == Init => SharesTold
BY EmptySeq DEF Init, SharesTold

LEMMA MineKeepsTold ==
  ASSUME TypeOK, SharesTold, NEW m \in Miners, Mine(m)
  PROVE  SharesTold'
<1>t. /\ mpc \in [Miners -> MinePcs] /\ counter \in [Miners -> Nat]
      /\ blckNo \in [Miners -> Nat]
  BY DEF TypeOK, MinerTypeOK
<1> USE <1>t DEF commVars, localVars
<1>1. UNCHANGED <<cpc, solution>>
  BY DEF Mine, WaitTarget, MineLoop, Hash, MineRested, SetBlockSummary, DoneTarget
<1>2. CASE Hash(m)
  <2> DEFINE r == [blck |-> blckNo[m], thread |-> m, nonce |-> counter[m]]
  <2>1. r \in Told
    BY <1>2, MinersBounds DEF Hash, SharesTold, Told, Solutions
  <2>2. solutions' \in {solutions, Append(solutions, r)}
    BY <1>2 DEF Hash
  <2> HIDE DEF r
  <2>3. solutions' \in Seq(Told)
    <3>1. solutions \in Seq(Told)
      BY DEF SharesTold
    <3>2. Append(solutions, r) \in Seq(Told)
      BY <2>1, <3>1
    <3> QED  BY <2>2, <3>1, <3>2
  <2>4. \A k \in Miners : mpc'[k] = "hash" => counter'[k] < MaxHashes
    BY <1>2 DEF Hash, SharesTold
  <2> QED  BY <1>1, <2>3, <2>4 DEF SharesTold
<1>3. CASE MineLoop(m)
  <2>1. \A k \in Miners : mpc'[k] = "hash" => counter'[k] < MaxHashes
    BY <1>3 DEF MineLoop, SharesTold
  <2> QED  BY <1>1, <1>3, <2>1 DEF MineLoop, SharesTold
<1>4. CASE WaitTarget(m) \/ MineRested(m) \/ SetBlockSummary(m) \/ DoneTarget(m)
  <2>1. /\ \A k \in Miners : mpc'[k] = "hash" => k # m /\ mpc[k] = "hash"
        /\ \A k \in Miners \ {m} : counter'[k] = counter[k]
        /\ solutions' = solutions
    BY <1>4 DEF WaitTarget, MineRested, SetBlockSummary, DoneTarget
  <2> QED  BY <1>1, <2>1 DEF SharesTold
<1> QED  BY <1>2, <1>3, <1>4 DEF Mine

LEMMA CommunicateKeepsTold ==
  ASSUME TypeOK, SharesTold, Communicate
  PROVE  SharesTold'
<1>1. UNCHANGED <<mpc, counter>>
  BY DEF Communicate, Top, AwaitedInner, TargetAnswered, TargetNotAnswered,
         AwaitedOuter, NewTarget, SetMaxShares, GetSolution, LeaveLoop,
         ShareAccepted, ShareRejected, ShareFailed, CheckShares, Rested,
         GetBlockSummary, ResetMiningBlock, JoinMineThreads, minerVars
<1>2. solutions' \in Seq(Told) /\ (cpc' = "submit" => solution' \in Told)
  <2>1. CASE GetSolution
    <3>1. CASE solutions = << >>
      BY <2>1, <3>1 DEF GetSolution, SharesTold
    <3>2. CASE solutions # << >>
      <4>1. Popped \in Seq(Told) /\ solutions[Len(solutions)] \in Told
        BY <3>2 DEF SharesTold, Popped
      <4> QED  BY <2>1, <3>2, <4>1 DEF GetSolution
    <3> QED  BY <3>1, <3>2
  <2>2. CASE ShareFailed
    BY <2>2, AppendProperties DEF ShareFailed, SharesTold
  <2>3. CASE ResetMiningBlock
    BY <2>3, EmptySeq DEF ResetMiningBlock, SolutionsLeft
  <2>4. CASE \/ Top \/ AwaitedInner \/ TargetAnswered \/ TargetNotAnswered
             \/ AwaitedOuter \/ NewTarget \/ SetMaxShares \/ LeaveLoop
             \/ ShareAccepted \/ ShareRejected \/ CheckShares \/ Rested
             \/ GetBlockSummary \/ JoinMineThreads
    <3>1. UNCHANGED solutions
      BY <2>4 DEF Top, AwaitedInner, TargetAnswered, TargetNotAnswered,
                  AwaitedOuter, NewTarget, SetMaxShares, LeaveLoop,
                  ShareAccepted, ShareRejected, CheckShares, Rested,
                  GetBlockSummary, JoinMineThreads
    <3>2. cpc' # "submit"
      BY <2>4 DEF Top, AwaitedInner, TargetAnswered, GotTarget,
                  TargetNotAnswered, AwaitedOuter, NewTarget, SetMaxShares,
                  LeaveLoop, ShareAccepted, ShareRejected, CheckShares, Rested,
                  GetBlockSummary, JoinMineThreads
    <3> QED  BY <3>1, <3>2 DEF SharesTold
  <2> QED  BY <2>1, <2>2, <2>3, <2>4 DEF Communicate
<1> QED  BY <1>1, <1>2 DEF SharesTold

LEMMA AlwaysTold == Spec => []SharesTold
<1>1. TypeOK /\ SharesTold /\ [Next]_vars => SharesTold'
  <2> SUFFICES ASSUME TypeOK, SharesTold, [Next]_vars PROVE SharesTold'
    OBVIOUS
  <2>1. CASE \E m \in Miners : Mine(m)
    BY <2>1, MineKeepsTold
  <2>2. CASE Communicate
    BY <2>2, CommunicateKeepsTold
  <2>3. CASE Stop \/ Tick \/ PoolNewBlock \/ UNCHANGED vars
    BY <2>3 DEF Stop, Tick, PoolNewBlock, vars, localVars, minerVars, SharesTold
  <2> QED  BY <2>1, <2>2, <2>3 DEF Next, Ended
<1> QED  BY <1>1, InitTold, TypeCorrect, PTL DEF Spec

\* The bases of the instance are those NosoHash_proofs is about.
LEMMA SameBase ==
  ASSUME NEW t \in Nat, NEW n \in Nat
  PROVE  Hasher!Base(Prefix, t, n) = Base(Prefix, t, n)
BY DEF Hasher!Base, Base, Hasher!ThreadPrefix, ThreadPrefix,
       Hasher!nosohash_prefix, nosohash_prefix, Hasher!HasheableChar,
       HasheableChar, Hasher!HASHEABLE_COUNT, HASHEABLE_COUNT,
       Hasher!Digits, Digits, Hasher!Powers, Powers

\* Two shares of one block with the same base are one share.
LEMMA BaseTellsShare ==
  ASSUME Miners \subseteq ThreadIds, 0 .. MaxHashes - 1 \subseteq Steps,
         NEW r \in Told, NEW s \in Told, r.blck = s.blck, BaseOf(r) = BaseOf(s)
  PROVE  r = s
<1>1. ASSUME NEW x \in Told
      PROVE  /\ x.thread \in ThreadIds /\ x.nonce \in Steps
             /\ BaseOf(x) = Base(Prefix, x.thread, x.nonce)
             /\ x = [blck |-> x.blck, thread |-> x.thread, nonce |-> x.nonce]
  <2>1. /\ x.thread \in Miners /\ x.thread \in Nat /\ x.nonce \in Nat
        /\ x.nonce \in 0 .. MaxHashes - 1
    BY MiningAssumption DEF Told, Solutions
  <2>2. x.thread \in ThreadIds /\ x.nonce \in Steps
    BY <2>1
  <2>3. BaseOf(x) = Base(Prefix, x.thread, x.nonce)
    BY <2>1, SameBase DEF BaseOf
  <2>4. x = [blck |-> x.blck, thread |-> x.thread, nonce |-> x.nonce]
    BY DEF Told, Solutions
  <2> QED  BY <2>2, <2>3, <2>4
<1>2. Base(Prefix, r.thread, r.nonce) = Base(Prefix, s.thread, s.nonce)
  BY <1>1, Zenon
<1>3. r.thread = s.thread /\ r.nonce = s.nonce
  <2> DEFINE t == r.thread  u == s.thread  m == r.nonce  n == s.nonce
  <2>1. t \in ThreadIds /\ u \in ThreadIds /\ m \in Steps /\ n \in Steps
    BY <1>1
  <2>2. Base(Prefix, t, m) = Base(Prefix, u, n)
    BY <1>2
  <2> HIDE DEF t, u, m, n
  <2>3. t = u /\ m = n
    BY <2>1, <2>2, BaseInjective, PrefixAssumption
  <2> QED  BY <2>3 DEF t, u, m, n
<1> QED  BY <1>1, <1>3, Zenon

\* No two shares of a block are one to the pool (GetBase, hashing.cpp), however
\* they are found, queued, put back and sent: for any number of threads that
\* nosohash_prefix tells apart, and fewer hashes than its nine digits count.
THEOREM SharesHaveTheirBases ==
  ASSUME Miners \subseteq ThreadIds, 0 .. MaxHashes - 1 \subseteq Steps
  PROVE  Spec => []BasesDiffer
<1>1. SharesTold /\ HandOverInv /\ NoShareTwice => BasesDiffer
  <2> SUFFICES ASSUME SharesTold, HandOverInv, NoShareTwice PROVE BasesDiffer
    OBVIOUS
  <2>1. /\ solutions \in Seq(Told)
        /\ \A i \in 1 .. Len(solutions) :
             solutions[i] \in Told /\ solutions[i].blck = target.blck + 1
    BY DEF SharesTold, HandOverInv, SharesBlck
  <2>2. cpc = "submit" => solution \in Told /\ solution.blck = target.blck + 1
    BY DEF SharesTold, HandOverInv, SharesBlck
  <2>3. ASSUME NEW i \in 1 .. Len(solutions), NEW j \in 1 .. Len(solutions),
               BaseOf(solutions[i]) = BaseOf(solutions[j])
        PROVE  i = j
    <3>1. solutions[i] = solutions[j]
      BY <2>1, <2>3, BaseTellsShare
    <3> QED  BY <3>1 DEF NoShareTwice
  <2>4. ASSUME cpc = "submit", NEW i \in 1 .. Len(solutions),
               BaseOf(solutions[i]) = BaseOf(solution)
        PROVE  FALSE
    <3>1. solutions[i] = solution
      BY <2>1, <2>2, <2>4, BaseTellsShare
    <3> QED  BY <2>4, <3>1 DEF NoShareTwice
  <2> QED  BY <2>3, <2>4 DEF BasesDiffer
<1> QED  BY <1>1, AlwaysTold, HandOver, NoShareIsTwice, PTL
=============================================================================
