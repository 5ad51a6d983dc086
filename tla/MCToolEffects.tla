--------------------------- MODULE MCToolEffects ---------------------------
EXTENDS ToolEffects, TLC

CONSTANTS k1, k2, m1

MCSymmetry == Permutations(Compensator)
=============================================================================
