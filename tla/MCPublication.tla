---------------------------- MODULE MCPublication ----------------------------
EXTENDS Publication, TLC

Symmetry == Permutations(Procs) \cup Permutations(Drafts)

=============================================================================
