------------------------- MODULE MCInsertionBatches -------------------------
(* Instances of InsertionBatches for TLC.                                  *)
EXTENDS InsertionBatches, TLC

CONSTANTS b1, b2, d1, d2, s1

Alike == Permutations(Docs) \union Permutations(Batches)
=============================================================================
