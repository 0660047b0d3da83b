------------------------ MODULE MCShareSubmission --------------------------
(* The instances of ShareSubmission that TLC checks.                       *)
EXTENDS ShareSubmission, TLC

\* Shares of a block differ in their base only, and any base will do.
IdSymmetry == Permutations(Ids)
=============================================================================
