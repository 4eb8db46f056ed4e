---------------------------- MODULE MCPageHistory ----------------------------
EXTENDS PageStoreRefinement, TLC

ClientSymmetry == Permutations(Clients)
=============================================================================
