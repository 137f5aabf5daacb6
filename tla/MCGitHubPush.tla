----------------------------- MODULE MCGitHubPush -----------------------------
EXTENDS GitHubPush, TLC
CONSTANTS c1, c2
Symmetry == Permutations(Clients)
==============================================================================
