--------------------------- MODULE MCBlockMining ----------------------------
(* The instances of BlockMining that TLC checks; the constants are in the  *)
(* .cfg files.  The clock starts anywhere in the first block, in any part  *)
(* of it, and stops in the outer period of the last one.                   *)
EXTENDS BlockBases

\* "abc", the prefix of the pool.
MCPrefix == <<97, 98, 99>>
=============================================================================
