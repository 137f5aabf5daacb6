---------------------------- MODULE MCAgenticCoder ----------------------------
EXTENDS AgenticCoder, TLC
CONSTANTS a1, a2, code
Symmetry == Permutations(Attempts)
==============================================================================
