----------------------------- MODULE BlockBases -----------------------------
(***************************************************************************)
(* What the shares of BlockMining are to the pool: the bases that NosoHash *)
(* makes of the prefix of the pool, the thread and its counter.            *)
(***************************************************************************)
EXTENDS BlockMining

CONSTANT Prefix  \* of the pool's target, three characters

ASSUME PrefixAssumption == Prefix \in Seq(33 .. 126) /\ Len(Prefix) = 3

Hasher == INSTANCE NosoHash

BaseOf(s) == Hasher!Base(Prefix, s.thread, s.nonce)

\* The shares of a block that wait or are being submitted have different bases:
\* none is sent to the pool twice under the name of another thread or step.
BasesDiffer ==
  /\ \A i, j \in 1 .. Len(solutions) :
       BaseOf(solutions[i]) = BaseOf(solutions[j]) => i = j
  /\ cpc = "submit" => \A i \in 1 .. Len(solutions) :
       BaseOf(solutions[i]) # BaseOf(solution)
=============================================================================
