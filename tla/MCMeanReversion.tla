-------------------------- MODULE MCMeanReversion ---------------------------
(* MeanReversion with few intervals.                                       *)
EXTENDS MeanReversion, TLC

CONSTANTS k1, k2

MCScores == {-4, -3, -1, 0, 1, 3, 4}
Symmetry == Permutations(Slots)
=============================================================================
